---- MODULE Spec2Model ----
(***************************************************************************)
(* Thermal rating of electrical cables (simplified IEC 60287): the layer   *)
(* model, the fixed-point conductor-temperature solver, the ampacity       *)
(* bisection and the enhanced (in-air) model.                              *)
(*                                                                         *)
(* Python floats are modelled as decimal floating-point numbers            *)
(* [m |-> mantissa, e |-> exponent], value m * 10^e, with an 8-digit       *)
(* mantissa and truncating rounding.  Every arithmetic operator below      *)
(* keeps its intermediate integers inside 32 bits.                         *)
(***************************************************************************)
EXTENDS Integers, Sequences, FiniteSets, TLC

----------------------------------------------------------------------------
(* Decimal floating point.  The arithmetic operations are functions: an    *)
(* application evaluates its arguments once, before the body.              *)

MantDigits == 4 + 4
HalfBase == 10^4

IAbs(n) == IF n < 0 THEN -n ELSE n
ISign(n) == IF n < 0 THEN -1 ELSE 1

\* The number of decimal digits of n, 0 < n < 2^31.
NDigits(n) ==
    IF n < 10^5
    THEN IF n < 10^2 THEN (IF n < 10 THEN 1 ELSE 2)
         ELSE IF n < 10^3 THEN 3 ELSE IF n < 10^4 THEN 4 ELSE 5
    ELSE IF n < 10^7 THEN (IF n < 10^6 THEN 6 ELSE 7)
         ELSE IF n < 10^8 THEN 8 ELSE IF n < 10^9 THEN 9 ELSE 10

Float == [m : Int, e : Int]
Zero == [m |-> 0, e |-> 0]

\* The float with sign s, magnitude n * 10^e, mantissa cut to 8 digits.
NormD(s, n, e, d) ==
    IF d > MantDigits
    THEN [m |-> s * (n \div 10^(d - MantDigits)), e |-> e + (d - MantDigits)]
    ELSE [m |-> s * n * 10^(MantDigits - d), e |-> e - (MantDigits - d)]
Norm[s \in Int, n \in Int, e \in Int] ==
    IF n = 0 THEN Zero ELSE NormD(s, n, e, NDigits(n))

\* The decimal literal n * 10^e (0.00393 is Dec(393, -5)).
Dec(n, e) == Norm[ISign(n), IAbs(n), e]
Fl(n) == Dec(n, 0)

FNeg[a \in Float] == [m |-> -a.m, e |-> a.e]
FAbs[a \in Float] == [m |-> IAbs(a.m), e |-> a.e]
IsZero(a) == a.m = 0

\* a + b: the operand of smaller exponent is shifted right; one guard digit.
AddAligned(hi, lo, d) ==
    Dec(hi.m * 10
        + (IF d > MantDigits + 1 THEN 0
           ELSE IF d = 0 THEN lo.m * 10
           ELSE ISign(lo.m) * (IAbs(lo.m) \div 10^(d - 1))),
        hi.e - 1)
FAdd[a \in Float, b \in Float] ==
    IF a.m = 0 THEN b
    ELSE IF b.m = 0 THEN a
    ELSE IF a.e >= b.e THEN AddAligned(a, b, a.e - b.e)
    ELSE AddAligned(b, a, b.e - a.e)
FSub[a \in Float, b \in Float] == FAdd[a, FNeg[b]]

\* a * b from the 4-digit halves x1, x0 and y1, y0 of the mantissas.
MulHalves(x1, x0, y1, y0) ==
    10 * x1 * y1 + ((x1 * y0 + x0 * y1 + ((x0 * y0) \div HalfBase)) \div 1000)
MulMant(x, y) == MulHalves(x \div HalfBase, x % HalfBase, y \div HalfBase, y % HalfBase)
FMul[a \in Float, b \in Float] ==
    IF a.m = 0 \/ b.m = 0 THEN Zero
    ELSE Norm[ISign(a.m) * ISign(b.m), MulMant(IAbs(a.m), IAbs(b.m)), a.e + b.e + 7]

\* Long division of x by y: the remainder after k decimal places, and the
\* quotient floor(x * 10^k / y).
RECURSIVE Rem(_, _, _)
Rem(x, y, k) == IF k = 0 THEN x % y ELSE (10 * Rem(x, y, k - 1)) % y
RECURSIVE Quot(_, _, _)
Quot(x, y, k) ==
    IF k = 0 THEN x \div y
    ELSE 10 * Quot(x, y, k - 1) + ((10 * Rem(x, y, k - 1)) \div y)

\* a / b for b # 0.
FDiv[a \in Float, b \in Float] ==
    IF a.m = 0 THEN Zero
    ELSE Norm[ISign(a.m) * ISign(b.m), Quot(IAbs(a.m), IAbs(b.m), MantDigits),
              a.e - b.e - MantDigits]

FLt(a, b) == FSub[a, b].m < 0
FLe(a, b) == FSub[a, b].m <= 0
FGt(a, b) == FSub[b, a].m < 0
FGe(a, b) == FSub[b, a].m <= 0

One == [m |-> 10^7, e |-> -7]
Two == [m |-> 2 * 10^7, e |-> -7]
Four == [m |-> 4 * 10^7, e |-> -7]
Eight == [m |-> 8 * 10^7, e |-> -7]
Half == [m |-> 5 * 10^7, e |-> -8]
Pi == [m |-> 31415927, e |-> -7]
Ln2 == [m |-> 69314718, e |-> -8]
Ln4 == [m |-> 13862944, e |-> -7]
Ln8 == [m |-> 20794415, e |-> -7]
Ln10 == [m |-> 23025851, e |-> -7]

\* atanh(y) / y = 1 + z/3 + z^2/5 + z^3/7 + z^4/9 + z^5/11 for z = y^2 < 0.03
AtanhPoly[z \in Float] ==
    FAdd[One, FMul[z,
    FAdd[Dec(33333333, -8), FMul[z,
    FAdd[Dec(2, -1), FMul[z,
    FAdd[Dec(14285714, -8), FMul[z,
    FAdd[Dec(11111111, -8), FMul[z, Dec(90909091, -9)]]]]]]]]]]

\* 2 * atanh(y) = ln((1 + y) / (1 - y))
TwoAtanh[y \in Float] == FMul[FMul[Two, y], AtanhPoly[FMul[y, y]]]

\* ln w for w in [0.7, 1.42]
LnNearOne[w \in Float] == TwoAtanh[FDiv[FSub[w, One], FAdd[w, One]]]

\* ln v for v in [1, 10): v over 1, 2, 4 or 8 lies in [0.7, 1.42].
LnMantissa[v \in Float] ==
    IF v.m < 14142136 THEN LnNearOne[v]
    ELSE IF v.m < 28284271 THEN FAdd[Ln2, LnNearOne[FDiv[v, Two]]]
    ELSE IF v.m < 56568542 THEN FAdd[Ln4, LnNearOne[FDiv[v, Four]]]
    ELSE FAdd[Ln8, LnNearOne[FDiv[v, Eight]]]

\* math.log(x) for x > 0: x = v * 10^k with v in [1, 10).
FLn[x \in Float] ==
    FAdd[FMul[Fl(x.e + (MantDigits - 1)), Ln10],
         LnMantissa[[m |-> x.m, e |-> -(MantDigits - 1)]]]

\* floor(a) as an integer, for |a| < 2^31.
FloorInt[a \in Float] ==
    IF a.e >= 0 THEN a.m * 10^a.e
    ELSE IF a.e < -9 THEN (IF a.m < 0 THEN -1 ELSE 0)
    ELSE a.m \div 10^(-a.e)

\* a * 10^n
Scale10[a \in Float, n \in Int] == IF a.m = 0 THEN Zero ELSE [m |-> a.m, e |-> a.e + n]

\* exp(r) for |r| < 0.15: the Taylor polynomial of degree 7.
ExpSmall[r \in Float] ==
    FAdd[One, FMul[r,
    FAdd[One, FMul[FMul[r, Half],
    FAdd[One, FMul[FMul[r, Dec(33333333, -8)],
    FAdd[One, FMul[FMul[r, Dec(25, -2)],
    FAdd[One, FMul[FMul[r, Dec(2, -1)],
    FAdd[One, FMul[FMul[r, Dec(16666667, -8)],
    FAdd[One, FMul[r, Dec(14285714, -8)]]]]]]]]]]]]]]

Sq[y \in Float] == FMul[y, y]

\* exp(t) = 10^n * exp(r)^8 with r = (t - n * ln 10) / 8
ExpReduced[t \in Float, n \in Int] ==
    Scale10[Sq[Sq[Sq[ExpSmall[FMul[FSub[t, FMul[Fl(n), Ln10]], Dec(125, -3)]]]]], n]
FExp[t \in Float] == ExpReduced[t, FloorInt[FAdd[FDiv[t, Ln10], Half]]]

\* x ** p for x >= 0 and p > 0
FPow[x \in Float, p \in Float] == IF x.m = 0 THEN Zero ELSE FExp[FMul[p, FLn[x]]]

\* math.sqrt(x) for x >= 0
FSqrt[x \in Float] == FPow[x, Half]

----------------------------------------------------------------------------
(* CableLayer (cable_model_iec60287.py).  Radii in mm.                     *)

Layer(nm, ri, ro, lam, rho, alpha) ==
    [name |-> nm, inner_radius |-> ri, outer_radius |-> ro,
     thermal_conductivity |-> lam, resistivity |-> rho,
     temp_coefficient |-> alpha]

Layers ==
    [name : STRING, inner_radius : Float, outer_radius : Float,
     thermal_conductivity : Float, resistivity : Float, temp_coefficient : Float]

\* What a call yields: a float, or the exception it raises.
Result == [err : STRING, val : Float]
Ok(v) == [err |-> "none", val |-> v]
Raise(x) == [err |-> x, val |-> Zero]

\* CableLayer.get_thermal_resistance: 0.0 for inner_radius <= 0 or
\* outer_radius <= inner_radius, else (1/lambda) * ln(r_o/r_i) / (2 pi);
\* 1.0 / 0.0 raises.
get_thermal_resistance(layer) ==
    IF FLe(layer.inner_radius, Zero) \/ FLe(layer.outer_radius, layer.inner_radius)
    THEN Ok(Zero)
    ELSE IF IsZero(layer.thermal_conductivity)
    THEN Raise("ZeroDivisionError")
    ELSE LET rho_thermal == FDiv[One, layer.thermal_conductivity]
         IN Ok(FDiv[FMul[rho_thermal,
                         FLn[FDiv[layer.outer_radius, layer.inner_radius]]],
                    FMul[Two, Pi]])

\* area = pi * (outer_radius^2 - inner_radius^2)
Area(layer) ==
    FMul[Pi, FSub[FMul[layer.outer_radius, layer.outer_radius],
                  FMul[layer.inner_radius, layer.inner_radius]]]

\* CableLayer.get_electrical_resistance(length, temperature).
get_electrical_resistance(layer, length, temperature) ==
    IF FLe(layer.resistivity, Zero) THEN Zero
    ELSE IF FLe(Area(layer), Zero) THEN Zero
    ELSE FMul[FDiv[FMul[layer.resistivity, length], Area(layer)],
              FAdd[One, FMul[layer.temp_coefficient, FSub[temperature, Fl(20)]]]]

----------------------------------------------------------------------------
(* CableConfiguration.  The object's fields are the record `cable`.        *)
(* Currents are held as whole multiples of 2^-16 A: every midpoint the     *)
(* bisection of [0, 10000 A] forms in 20 halvings is one, exactly as in    *)
(* binary floating point.                                                  *)

AmpUnit == 2^16
Amps(n) == n * AmpUnit
CurrentF(i) == FDiv[Fl(i), Fl(AmpUnit)]

\* cable: the configuration object; pc, caller: the place of control and
\* the method in progress; frame: the locals of the temperature solver;
\* search: the locals of calculate_max_current; ret: the last value returned;
\* runs: the completed calls, each with the current it ran at; trace: one
\* record per pass of the solver loop of the call in progress or last made;
\* group: the cable group and heating: the locals of its mutual-heating
\* call; materials: MaterialDatabase.MATERIALS, the lambda of each name.
VARIABLES cable, pc, caller, frame, search, ret, runs, trace, group, heating, materials, analysis, optimizer, ampacity, gui, diary
vars == <<cable, pc, caller, frame, search, ret, runs, trace, group, heating, materials, analysis, optimizer, ampacity, gui, diary>>

\* CableConfiguration.__init__: no layers, 0 A, 20 C ambient, 90 C limit.
NewCable ==
    [layers |-> <<>>, external_layers |-> <<>>, current |-> 0,
     ambient_temp |-> Fl(20), max_conductor_temp |-> Fl(90)]

add_layer(c, layer) == [c EXCEPT !.layers = Append(@, layer)]
add_external_layer(c, layer) == [c EXCEPT !.external_layers = Append(@, layer)]

\* CableMaterialLibrary.create_mv_cable_240mm2_xlpe
create_mv_cable_240mm2_xlpe ==
    LET c1 == add_layer(NewCable, Layer("Conductor (Cu)", Zero, Dec(87, -1),
                      Fl(380), Dec(175, -4), Dec(393, -5)))
        c2 == add_layer(c1, Layer("Conductor Screen", Dec(87, -1), Dec(94, -1),
                      Dec(286, -3), Zero, Zero))
        c3 == add_layer(c2, Layer("Insulation (XLPE)", Dec(94, -1), Dec(149, -1),
                      Dec(286, -3), Zero, Zero))
        c4 == add_layer(c3, Layer("Insulation Screen", Dec(149, -1), Dec(156, -1),
                      Dec(286, -3), Zero, Zero))
        c5 == add_layer(c4, Layer("Metallic Screen (Cu)", Dec(156, -1), Dec(171, -1),
                      Fl(380), Zero, Zero))
        c6 == add_layer(c5, Layer("Outer Sheath (PE)", Dec(171, -1), Dec(196, -1),
                      Dec(4, -1), Zero, Zero))
        c7 == [c6 EXCEPT !.max_conductor_temp = Fl(90)]
    IN add_external_layer(c7, Layer("Soil (Earth)", Dec(196, -1), Fl(1000),
                      One, Zero, Zero))

\* CableMaterialLibrary.create_hv_cable_630mm2_xlpe
create_hv_cable_630mm2_xlpe ==
    LET c1 == add_layer(NewCable, Layer("Conductor (Cu)", Zero, Dec(142, -1),
                      Fl(380), Dec(175, -4), Dec(393, -5)))
        c2 == add_layer(c1, Layer("Conductor Screen", Dec(142, -1), Dec(152, -1),
                      Dec(286, -3), Zero, Zero))
        c3 == add_layer(c2, Layer("Insulation (XLPE)", Dec(152, -1), Dec(332, -1),
                      Dec(286, -3), Zero, Zero))
        c4 == add_layer(c3, Layer("Insulation Screen", Dec(332, -1), Dec(342, -1),
                      Dec(286, -3), Zero, Zero))
        c5 == add_layer(c4, Layer("Metallic Screen (Cu)", Dec(342, -1), Dec(362, -1),
                      Fl(380), Zero, Zero))
        c6 == add_layer(c5, Layer("Outer Sheath (PE)", Dec(362, -1), Dec(402, -1),
                      Dec(4, -1), Zero, Zero))
        c7 == [c6 EXCEPT !.max_conductor_temp = Fl(90)]
    IN add_external_layer(c7, Layer("Soil (Earth)", Dec(402, -1), Fl(1500),
                      One, Zero, Zero))

\* CableConfiguration.get_conductor_layer raises on an empty layer list.
HasConductor(c) == Len(c.layers) > 0
get_conductor_layer(c) == c.layers[1]

\* CableConfiguration.calculate_conductor_losses(temperature): I^2 * R(T).
calculate_conductor_losses(c, temperature) ==
    IF ~HasConductor(c) THEN Raise("ValueError")
    ELSE Ok(FMul[FMul[CurrentF(c.current), CurrentF(c.current)],
                 get_electrical_resistance(get_conductor_layer(c), One, temperature)])

\* r_total += layer.get_thermal_resistance(); an exception ends the sum.
AddResistance[acc \in Result, r \in Result] ==
    IF acc.err # "none" THEN acc
    ELSE IF r.err # "none" THEN r
    ELSE Ok(FAdd[acc.val, r.val])

\* r_total after the first k layers of seq, from r_total = start.
RECURSIVE SumResistance(_, _, _)
SumResistance(seq, k, start) ==
    IF k = 0 THEN start
    ELSE AddResistance[SumResistance(seq, k - 1, start),
                       get_thermal_resistance(seq[k])]

\* The internal layers alone.
InternalResistance(c) == SumResistance(c.layers, Len(c.layers), Ok(Zero))

\* CableConfiguration.get_total_thermal_resistance: the internal layers,
\* then the external ones.
get_total_thermal_resistance(c) ==
    SumResistance(c.external_layers, Len(c.external_layers),
                  SumResistance(c.layers, Len(c.layers), Ok(Zero)))

----------------------------------------------------------------------------
(* The inputs of the model.                                                *)

\* Calls made on one configuration.
MaxCalls == 2

\* A conductor and one insulation layer, no soil.
TwoLayerCable(rho, alpha, lam) ==
    add_layer(add_layer(NewCable,
                  Layer("Conductor", Zero, One, Fl(380), rho, alpha)),
              Layer("Insulation", One, Fl(21), lam, Zero, Zero))

\* The 240 mm2 cable with a zero-thickness tape between screen and sheath.
CableWithTape ==
    LET c == create_mv_cable_240mm2_xlpe
    IN [c EXCEPT !.layers = SubSeq(@, 1, 5)
                   \o <<Layer("Tape", Dec(171, -1), Dec(171, -1), Dec(2, -1), Zero, Zero)>>
                   \o SubSeq(@, 6, 6)]

\* Copper in PVC; a resistance wire (100 Ohm mm2/m) in a poor insulator.
CopperPVC == TwoLayerCable(Dec(175, -4), Dec(393, -5), Dec(16, -2))
ResistanceWire == TwoLayerCable(Fl(100), Dec(393, -5), Dec(1, -2))

Cables == {create_mv_cable_240mm2_xlpe, CopperPVC}
ProfileCables == {create_mv_cable_240mm2_xlpe, CableWithTape}
Ambients == {Fl(20), Fl(25)}
\* 0 A, 73 A, 73 1/8 A, 400 A, 5000 A
Currents == {0, Amps(73), Amps(73) + AmpUnit \div 8, Amps(400), Amps(5000)}

----------------------------------------------------------------------------
(* calculate_conductor_temperature: the fixed-point loop, one action per   *)
(* pass of the loop body.                                                  *)

MaxIterations == 10
ConvergenceTol == Dec(1, -1)

NoFrame == [t_conductor |-> Zero, losses |-> Zero, r_thermal |-> Zero, iteration |-> 0]
NoSearch ==
    [i_min |-> 0, i_max |-> 0, i_test |-> 0, k |-> 0, phase |-> "none", met |-> FALSE]
NoRet == [err |-> "none", op |-> "none"]

\* The test with a tolerance of 1 K in place of 0.1 K.
ConvergedLoose(t_new, t_conductor) == FLt(FAbs[FSub[t_new, t_conductor]], One)

\* abs(t_new - t_conductor) < 0.1
Converged(t_new, t_conductor) == FLt(FAbs[FSub[t_new, t_conductor]], ConvergenceTol)

\* t_new = ambient_temp + losses * r_thermal
NewTemperature(c, losses, r_thermal) == FAdd[c.ambient_temp, FMul[losses, r_thermal]]

\* The loop variable itself, in place of iteration + 1.
LoopVariable(iteration) == iteration

\* "iterations": iteration + 1
ReportedIterations(iteration) == iteration + 1

\* The details dictionary and the returned pair.
TemperatureResult(c, f) ==
    [err |-> "none", op |-> "calculate_conductor_temperature",
     value |-> f.t_conductor,
     details |-> [conductor_temp_C |-> f.t_conductor,
                  ambient_temp_C |-> c.ambient_temp,
                  losses_W_per_m |-> f.losses,
                  thermal_resistance_K_m_W |-> f.r_thermal,
                  current_A |-> c.current,
                  iterations |-> ReportedIterations(f.iteration),
                  max_allowed_temp_C |-> c.max_conductor_temp]]

Failure(operation, x) == [err |-> x, op |-> operation]

\* A call's entry that starts from the temperature the call before it left.
EnterFromPrevious(c) ==
    [t_conductor |-> frame.t_conductor, losses |-> Zero, r_thermal |-> Zero,
     iteration |-> 0]

\* A call's entry: t_conductor = max_conductor_temp, losses = r_thermal = 0.
EnterTemperature(c) ==
    [t_conductor |-> c.max_conductor_temp, losses |-> Zero, r_thermal |-> Zero,
     iteration |-> 0]

\* One pass of the loop body on frame f, the losses l and the thermal
\* resistance r computed: the next frame, and whether the loop is left.
LoopTest(c, f, t_new) ==
    IF Converged(t_new, f.t_conductor)
    THEN [err |-> "none", exit |-> TRUE, t_new |-> t_new, frame |-> f]
    ELSE IF f.iteration + 1 < MaxIterations
    THEN [err |-> "none", exit |-> FALSE, t_new |-> t_new,
          frame |-> [f EXCEPT !.t_conductor = t_new, !.iteration = f.iteration + 1]]
    ELSE [err |-> "none", exit |-> TRUE, t_new |-> t_new,
          frame |-> [f EXCEPT !.t_conductor = t_new]]

\* The loop body on frame f, its losses l and thermal resistance r computed.
LoopBody(c, f, l, r) ==
    IF l.err # "none"
    THEN [err |-> l.err, exit |-> TRUE, t_new |-> Zero, frame |-> f]
    ELSE IF r.err # "none"
    THEN [err |-> r.err, exit |-> TRUE, t_new |-> Zero,
          frame |-> [f EXCEPT !.losses = l.val]]
    ELSE LoopTest(c, [f EXCEPT !.losses = l.val, !.r_thermal = r.val],
                  NewTemperature(c, l.val, r.val))

\* The exception leaves every call in progress.
Propagate(x) ==
    /\ ret' = Failure(caller, x)
    /\ runs' = Append(runs, [current |-> cable.current, ret |-> Failure(caller, x)])
    /\ pc' = "idle"
    /\ caller' = "none"

TemperatureIter ==
    /\ pc = "ct_loop"
    /\ \E l \in {calculate_conductor_losses(cable, frame.t_conductor)},
          r \in {get_total_thermal_resistance(cable)} :
       \E b \in {LoopBody(cable, frame, l, r)} :
          /\ frame' = b.frame
          /\ trace' = Append(trace, [t |-> frame.t_conductor, t_new |-> b.t_new,
                                     losses |-> b.frame.losses,
                                     r_thermal |-> b.frame.r_thermal])
          /\ IF b.err # "none"
             THEN Propagate(b.err)
             ELSE /\ pc' = IF b.exit THEN "ct_return" ELSE "ct_loop"
                  /\ UNCHANGED <<ret, runs, caller>>
    /\ UNCHANGED <<cable, search, group, heating, materials, analysis, optimizer, ampacity, gui, diary>>

\* The user's call of calculate_conductor_temperature.
\* An object without the attribute max_conductor_temp (the dataclass
\* EnhancedCableConfiguration never runs CableConfiguration.__init__) fails
\* at the first statement.
TemperatureCall ==
    /\ pc = "idle"
    /\ Len(runs) < MaxCalls
    /\ trace' = <<>>
    /\ IF "max_conductor_temp" \in DOMAIN cable
       THEN /\ pc' = "ct_loop"
            /\ caller' = "calculate_conductor_temperature"
            /\ frame' = EnterTemperature(cable)
            /\ UNCHANGED <<ret, runs>>
       ELSE /\ ret' = Failure("calculate_conductor_temperature", "AttributeError")
            /\ runs' = Append(runs,
                  [current |-> cable.current,
                   ret |-> Failure("calculate_conductor_temperature", "AttributeError")])
            /\ UNCHANGED <<pc, caller, frame>>
    /\ UNCHANGED <<cable, search, group, heating, materials, analysis, optimizer, ampacity, gui, diary>>

TemperatureReturn ==
    /\ pc = "ct_return"
    /\ caller = "calculate_conductor_temperature"
    /\ \E r \in {TemperatureResult(cable, frame)} :
          /\ ret' = r
          /\ runs' = Append(runs, [current |-> cable.current, ret |-> r])
    /\ pc' = "idle"
    /\ caller' = "none"
    /\ UNCHANGED <<cable, frame, search, trace, group, heating, materials, analysis, optimizer, ampacity, gui, diary>>

----------------------------------------------------------------------------
(* calculate_temperature_profile                                           *)

\* The drop added to the temperature in place of subtracted.
TemperatureRise(current_temp, losses, layer) ==
    FAdd[current_temp, FMul[losses, get_thermal_resistance(layer).val]]

\* delta_t = losses * layer.get_thermal_resistance(); current_temp -= delta_t
TemperatureDrop(current_temp, losses, layer) ==
    FSub[current_temp, FMul[losses, get_thermal_resistance(layer).val]]

\* (radius, temperature, name) at the inner and the outer radius of a layer.
Point == [radius : Float, temp : Float, name : STRING]
ProfilePoints(layer, current_temp, after) ==
    <<[radius |-> layer.inner_radius, temp |-> current_temp, name |-> layer.name],
      [radius |-> layer.outer_radius, temp |-> after, name |-> layer.name]>>

\* One pass of the loop over self.layers: current_temp is t_conductor or the
\* temperature of the last point appended.
LayerPoints[profile \in Seq(Point), layer \in Layers, t_conductor \in Float, losses \in Float] ==
    LET current_temp ==
            IF profile = <<>> THEN t_conductor ELSE profile[Len(profile)].temp
    IN profile \o ProfilePoints(layer, current_temp,
                                TemperatureDrop(current_temp, losses, layer))

\* The profile after the first k layers.
RECURSIVE ProfileUpTo(_, _, _, _)
ProfileUpTo(c, k, t_conductor, losses) ==
    IF k = 0 THEN <<>>
    ELSE LayerPoints[ProfileUpTo(c, k - 1, t_conductor, losses), c.layers[k],
                     t_conductor, losses]

ProfileResult(c, t_conductor, losses) ==
    [err |-> "none", op |-> "calculate_temperature_profile",
     t_conductor |-> t_conductor, losses |-> losses,
     value |-> ProfileUpTo(c, Len(c.layers), t_conductor, losses)]

ProfileCall ==
    /\ pc = "idle"
    /\ Len(runs) < MaxCalls
    /\ pc' = "ct_loop"
    /\ caller' = "calculate_temperature_profile"
    /\ frame' = EnterTemperature(cable)
    /\ trace' = <<>>
    /\ UNCHANGED <<cable, search, ret, runs, group, heating, materials, analysis, optimizer, ampacity, gui, diary>>

\* The solver has returned t_conductor; the rest of the method.
ProfileReturn ==
    /\ pc = "ct_return"
    /\ caller = "calculate_temperature_profile"
    /\ \E losses \in {calculate_conductor_losses(cable, frame.t_conductor).val} :
       \E r \in {ProfileResult(cable, frame.t_conductor, losses)} :
          /\ ret' = r
          /\ runs' = Append(runs, [current |-> cable.current, ret |-> r])
    /\ pc' = "idle"
    /\ caller' = "none"
    /\ UNCHANGED <<cable, frame, search, trace, group, heating, materials, analysis, optimizer, ampacity, gui, diary>>

----------------------------------------------------------------------------
(* calculate_max_current: the bisection over [0, 10000] A, one action per  *)
(* probe; the solver runs between them.                                    *)

MaxProbes == 20
UpperCurrent == Amps(10000)
SearchTol == Dec(5, -1)

\* The test with a tolerance of 5 K in place of 0.5 K.
TargetMetLoose(t_conductor, c) ==
    FLt(FAbs[FSub[t_conductor, c.max_conductor_temp]], Fl(5))

\* abs(t_conductor - self.max_conductor_temp) < 0.5
TargetMet(t_conductor, c) ==
    FLt(FAbs[FSub[t_conductor, c.max_conductor_temp]], SearchTol)

\* A probe at three quarters of the bracket in place of its middle.
UpperQuarter(i_min, i_max) == (i_min + 3 * i_max) \div 4

\* i_test = (i_min + i_max) / 2
Midpoint(i_min, i_max) == (i_min + i_max) \div 2

\* i_max = i_test if the probe was too hot, else i_min = i_test.
Narrow(sr, t_conductor, c) ==
    IF FGt(t_conductor, c.max_conductor_temp)
    THEN [sr EXCEPT !.i_max = sr.i_test, !.k = sr.k + 1]
    ELSE [sr EXCEPT !.i_min = sr.i_test, !.k = sr.k + 1]

\* The next probe of the search sr: self.current = i_test, then the solver.
Probe(sr) ==
    /\ search' = [sr EXCEPT !.i_test = Midpoint(sr.i_min, sr.i_max)]
    /\ cable' = [cable EXCEPT !.current = Midpoint(sr.i_min, sr.i_max)]
    /\ frame' = EnterTemperature(cable)
    /\ trace' = <<>>
    /\ pc' = "ct_loop"

\* The loop is left: the final call of the solver at self.current.
FinalRun(sr) ==
    /\ search' = [sr EXCEPT !.phase = "final"]
    /\ frame' = EnterTemperature(cable)
    /\ trace' = <<>>
    /\ pc' = "ct_loop"
    /\ UNCHANGED cable

MaxCurrentCall ==
    /\ pc = "idle"
    /\ Len(runs) < MaxCalls
    /\ caller' = "calculate_max_current"
    /\ Probe([i_min |-> 0, i_max |-> UpperCurrent, i_test |-> 0, k |-> 0,
              phase |-> "probe", met |-> FALSE])
    /\ UNCHANGED <<ret, runs, group, heating, materials, analysis, optimizer, ampacity, gui, diary>>

\* The solver has returned the temperature of the probe.
MaxCurrentProbe ==
    /\ pc = "ct_return"
    /\ caller = "calculate_max_current"
    /\ search.phase = "probe"
    /\ IF TargetMet(frame.t_conductor, cable)
       THEN FinalRun([search EXCEPT !.met = TRUE])
       ELSE \E sr \in {Narrow(search, frame.t_conductor, cable)} :
               IF sr.k < MaxProbes THEN Probe(sr) ELSE FinalRun(sr)
    /\ UNCHANGED <<caller, ret, runs, group, heating, materials, analysis, optimizer, ampacity, gui, diary>>

\* The lower end of the bracket returned in place of self.current.
LowerBoundResult(c, f) ==
    [err |-> "none", op |-> "calculate_max_current", value |-> search.i_min,
     details |-> [conductor_temp_C |-> f.t_conductor,
                  ambient_temp_C |-> c.ambient_temp,
                  losses_W_per_m |-> f.losses,
                  thermal_resistance_K_m_W |-> f.r_thermal,
                  current_A |-> c.current,
                  iterations |-> ReportedIterations(f.iteration),
                  max_allowed_temp_C |-> c.max_conductor_temp,
                  max_current_A |-> search.i_min]]

\* return self.current, details: the details of the final solver run, with
\* details["max_current_A"] = self.current.
MaxCurrentResult(c, f) ==
    [err |-> "none", op |-> "calculate_max_current", value |-> c.current,
     details |-> [conductor_temp_C |-> f.t_conductor,
                  ambient_temp_C |-> c.ambient_temp,
                  losses_W_per_m |-> f.losses,
                  thermal_resistance_K_m_W |-> f.r_thermal,
                  current_A |-> c.current,
                  iterations |-> ReportedIterations(f.iteration),
                  max_allowed_temp_C |-> c.max_conductor_temp,
                  max_current_A |-> c.current]]

\* The final call has returned: details["max_current_A"] = self.current.
MaxCurrentReturn ==
    /\ pc = "ct_return"
    /\ caller = "calculate_max_current"
    /\ search.phase = "final"
    /\ \E r \in {MaxCurrentResult(cable, frame)} :
          /\ ret' = r
          /\ runs' = Append(runs, [current |-> cable.current, ret |-> r])
    /\ search' = [search EXCEPT !.phase = "done"]
    /\ pc' = "idle"
    /\ caller' = "none"
    /\ UNCHANGED <<cable, frame, trace, group, heating, materials, analysis, optimizer, ampacity, gui, diary>>

----------------------------------------------------------------------------
(* advanced_thermal_physics.py: convection, radiation, skin and proximity  *)
(* effect, shield losses, installation factors.  None is the absent        *)
(* parameter object.                                                       *)

None == [is_none |-> TRUE]

\* ConvectionParameters, the air properties at their defaults.
ConvectionParameters(air_velocity, air_temp, characteristic_length) ==
    [is_none |-> FALSE, air_velocity |-> air_velocity, air_temp |-> air_temp,
     characteristic_length |-> characteristic_length,
     air_density |-> Dec(12, -1), air_viscosity |-> Dec(181, -7),
     air_conductivity |-> Dec(26, -3), air_prandtl |-> Dec(71, -2)]
ConvectionParams ==
    [is_none : {FALSE}, air_velocity : Float, air_temp : Float,
     characteristic_length : Float, air_density : Float, air_viscosity : Float,
     air_conductivity : Float, air_prandtl : Float]

\* RadiationParameters
RadiationParameters(emissivity, surrounding_temp) ==
    [is_none |-> FALSE, emissivity |-> emissivity,
     surrounding_temp |-> surrounding_temp, stefan_boltzmann |-> Dec(567, -10)]
RadiationParams ==
    [is_none : {FALSE}, emissivity : Float, surrounding_temp : Float,
     stefan_boltzmann : Float]

Third == Dec(33333333, -8)
Kelvin == Dec(27315, -2)
FMax[a \in Float, b \in Float] == IF FGt(b, a) THEN b ELSE a

\* ConvectionModel.calculate_nusselt_natural, from rayleigh on.
NusseltOfRayleigh[rayleigh \in Float] ==
    IF FLt(rayleigh, Dec(1, -4)) THEN Dec(4, -1)
    ELSE IF FLt(rayleigh, Dec(1, 4))
    THEN FMul[Dec(675, -3), FPow[rayleigh, Dec(58, -3)]]
    ELSE IF FLt(rayleigh, Dec(1, 9))
    THEN FMul[Dec(54, -2), FPow[rayleigh, Dec(25, -2)]]
    ELSE FMul[Dec(135, -3), FPow[rayleigh, Third]]
calculate_nusselt_natural[grashof \in Float, prandtl \in Float] ==
    NusseltOfRayleigh[FMul[grashof, prandtl]]

\* ConvectionModel.calculate_nusselt_forced
calculate_nusselt_forced[reynolds \in Float, prandtl \in Float] ==
    IF FLt(reynolds, Fl(4))
    THEN FMul[FMul[Dec(989, -3), FPow[reynolds, Dec(33, -2)]], FPow[prandtl, Third]]
    ELSE IF FLt(reynolds, Fl(40))
    THEN FMul[FMul[Dec(911, -3), FPow[reynolds, Dec(385, -3)]], FPow[prandtl, Third]]
    ELSE IF FLt(reynolds, Fl(4000))
    THEN FMul[FMul[Dec(683, -3), FPow[reynolds, Dec(466, -3)]], FPow[prandtl, Third]]
    ELSE IF FLt(reynolds, Fl(40000))
    THEN FMul[FMul[Dec(193, -3), FPow[reynolds, Dec(618, -3)]], FPow[prandtl, Third]]
    ELSE FMul[FMul[Dec(27, -3), FPow[reynolds, Dec(805, -3)]], FPow[prandtl, Third]]

\* ConvectionModel.calculate_heat_transfer_coefficient, for air of positive
\* density and viscosity and a positive characteristic length.
calculate_heat_transfer_coefficient[params \in ConvectionParams, surface_temp \in Float] ==
    LET t_film == FDiv[FAdd[surface_temp, params.air_temp], Two]
        delta_t == FAbs[FSub[surface_temp, params.air_temp]]
        beta == FDiv[One, FAdd[Kelvin, t_film]]
        len == params.characteristic_length
        grashof ==
            FDiv[FMul[FMul[FMul[Dec(981, -2), beta], delta_t], FMul[FMul[len, len], len]],
                 Sq[FDiv[params.air_viscosity, params.air_density]]]
        reynolds ==
            FDiv[FMul[FMul[params.air_density, params.air_velocity], len],
                 params.air_viscosity]
        nusselt ==
            IF FLt(params.air_velocity, Dec(1, -1))
            THEN calculate_nusselt_natural[grashof, params.air_prandtl]
            ELSE FMax[calculate_nusselt_forced[reynolds, params.air_prandtl],
                      calculate_nusselt_natural[grashof, params.air_prandtl]]
    IN IF FLt(delta_t, Dec(1, -1)) THEN Zero
       ELSE FDiv[FMul[nusselt, params.air_conductivity], len]

\* RadiationModel.calculate_radiation_coefficient: 4 * eps * sigma * t_mean^3
MeanKelvin[surface_temp \in Float, surrounding_temp \in Float] ==
    FAdd[FDiv[FAdd[surface_temp, surrounding_temp], Two], Kelvin]
Cube[x \in Float] == FMul[FMul[x, x], x]
calculate_radiation_coefficient[params \in RadiationParams, surface_temp \in Float] ==
    FMul[FMul[FMul[Fl(4), params.emissivity], params.stefan_boltzmann],
         Cube[MeanKelvin[surface_temp, params.surrounding_temp]]]

\* mu_0 = 4 * math.pi * 1e-7
Mu0 == FMul[FMul[Fl(4), Pi], Dec(1, -7)]

\* SkinEffectModel.calculate_skin_depth for frequency >= 0.1, resistivity > 0
calculate_skin_depth[frequency \in Float, resistivity \in Float] ==
    FSqrt[FDiv[resistivity, FMul[FMul[FMul[Pi, frequency], Mu0], One]]]

\* k_skin from x = conductor_radius / delta
SkinFactor[x \in Float] ==
    IF FLt(x, One) THEN FAdd[One, FDiv[Sq[Sq[x]], Fl(48)]]
    ELSE FMul[FDiv[x, Two], FAdd[One, FDiv[Dec(25, -2), x]]]

\* SkinEffectModel.calculate_ac_resistance: delta is inf below 0.1 Hz;
\* math.sqrt raises on a negative quotient, x = radius / 0.0 on a zero one.
calculate_ac_resistance[r_dc \in Float, conductor_radius \in Float, frequency \in Float, resistivity \in Float] ==
    IF FLt(frequency, Dec(1, -1)) THEN Ok(FMul[r_dc, SkinFactor[Zero]])
    ELSE IF FLt(resistivity, Zero) THEN Raise("ValueError")
    ELSE IF IsZero(resistivity) THEN Raise("ZeroDivisionError")
    ELSE Ok(FMul[r_dc, SkinFactor[FDiv[conductor_radius,
                                       calculate_skin_depth[frequency, resistivity]]]])

\* ProximityEffectModel.calculate_proximity_factor, the distance already
\* raised to 2 * conductor_radius; a distance of 0 divides by zero.
ProximityOfDistance[conductor_radius \in Float, axis_distance \in Float, num_conductors \in Int] ==
    IF IsZero(axis_distance) /\ num_conductors \in {2, 3}
    THEN Raise("ZeroDivisionError")
    ELSE IF num_conductors = 2
    THEN Ok(FAdd[One, FDiv[One, FMul[Fl(4),
                  Sq[FDiv[axis_distance, FMul[Two, conductor_radius]]]]]])
    ELSE IF num_conductors = 3
    THEN Ok(FAdd[One, FMul[Dec(312, -3),
                  Sq[FDiv[FMul[Two, conductor_radius], axis_distance]]]])
    ELSE Ok(One)
calculate_proximity_factor[conductor_radius \in Float, axis_distance \in Float, num_conductors \in Int] ==
    IF IsZero(conductor_radius) THEN Raise("ZeroDivisionError")
    ELSE IF FLt(axis_distance, FMul[Two, conductor_radius])
    THEN ProximityOfDistance[conductor_radius, FMul[Two, conductor_radius],
                             num_conductors]
    ELSE ProximityOfDistance[conductor_radius, axis_distance, num_conductors]

\* ShieldLossModel.calculate_mutual_inductance; math.log raises on a ratio
\* that is not positive.
calculate_mutual_inductance[conductor_radius \in Float, shield_radius \in Float] ==
    IF FLe(shield_radius, conductor_radius) THEN Ok(Zero)
    ELSE IF IsZero(conductor_radius) THEN Raise("ZeroDivisionError")
    ELSE IF FLe(FDiv[shield_radius, conductor_radius], Zero) THEN Raise("ValueError")
    ELSE Ok(FMul[FMul[FDiv[Mu0, FMul[Two, Pi]],
                      FLn[FDiv[shield_radius, conductor_radius]]], One])

\* ShieldLossModel.calculate_shield_losses
calculate_shield_losses[conductor_current \in Float, shield_resistance \in Float, mutual_inductance \in Float, frequency \in Float] ==
    IF FLt(shield_resistance, Dec(1, -9)) THEN Zero
    ELSE FMul[Sq[FDiv[FMul[conductor_current,
                           FMul[FMul[FMul[Two, Pi], frequency], mutual_inductance]],
                      shield_resistance]],
              shield_resistance]

\* InstallationFactors.get_grouping_factor
GroupingTable(num_cables, two, three, four, six) ==
    IF num_cables = 2 THEN two
    ELSE IF num_cables = 3 THEN three
    ELSE IF num_cables = 4 THEN four
    ELSE IF num_cables = 6 THEN six
    ELSE Dec(5, -1)
get_grouping_factor[num_cables \in Int, spacing_ratio \in Float] ==
    IF num_cables = 1 THEN One
    ELSE IF FLt(spacing_ratio, Dec(25, -2))
    THEN GroupingTable(num_cables, Dec(75, -2), Dec(65, -2), Dec(60, -2), Dec(55, -2))
    ELSE IF FLt(spacing_ratio, Dec(5, -1))
    THEN GroupingTable(num_cables, Dec(80, -2), Dec(70, -2), Dec(65, -2), Dec(60, -2))
    ELSE GroupingTable(num_cables, Dec(85, -2), Dec(75, -2), Dec(70, -2), Dec(65, -2))

\* InstallationFactors.get_installation_method_factor
get_installation_method_factor(method) ==
    IF method = "direct_buried" THEN One
    ELSE IF method = "in_duct" THEN Dec(85, -2)
    ELSE IF method = "in_air" THEN Dec(12, -1)
    ELSE IF method = "in_water" THEN Dec(115, -2)
    ELSE IF method = "in_tunnel" THEN Dec(90, -2)
    ELSE One

\* InstallationFactors.get_soil_thermal_resistivity
SoilBase(soil_type) ==
    IF soil_type = "sand" THEN Dec(12, -1)
    ELSE IF soil_type = "clay" THEN One
    ELSE IF soil_type = "gravel" THEN Dec(15, -1)
    ELSE IF soil_type = "rock" THEN Dec(25, -1)
    ELSE IF soil_type = "peat" THEN Two
    ELSE One
get_soil_thermal_resistivity(soil_type, moisture) ==
    FMul[SoilBase(soil_type), FSub[One, FMul[Half, moisture]]]

----------------------------------------------------------------------------
(* enhanced_cable_model.py: EnhancedCableConfiguration.  The dataclass     *)
(* has the fields below and no max_conductor_temp.                         *)

NewEnhanced ==
    [layers |-> <<>>, external_layers |-> <<>>, current |-> 0,
     ambient_temp |-> Fl(20), convection_params |-> None,
     radiation_params |-> None, frequency |-> Fl(50), phase_angle |-> Zero,
     num_cables |-> 1, cable_spacing |-> Half,
     installation_method |-> "direct_buried", soil_type |-> "sand",
     soil_moisture |-> Dec(1, -1), burial_depth |-> One, has_shield |-> FALSE,
     shield_resistance |-> Zero, shield_radius |-> Zero,
     enable_transient |-> FALSE, thermal_capacitance |-> Zero]

IsEnhanced(c) == "installation_method" \in DOMAIN c

\* create_enhanced_mv_cable_in_air(current, ambient_temp, air_velocity)
EnhancedMVLayers ==
    <<Layer("Leiter (Cu)", Zero, Dec(979, -2), Fl(380), Dec(1724, -5), Dec(393, -5)),
      Layer("Leiter-Halbleiter", Dec(979, -2), Dec(1129, -2), Dec(286, -3), Zero, Zero),
      Layer("Isolierung (XLPE)", Dec(1129, -2), Dec(2079, -2), Dec(286, -3), Zero, Zero),
      Layer("Isolierungs-Halbleiter", Dec(2079, -2), Dec(2229, -2), Dec(286, -3), Zero, Zero),
      Layer("Kupferschirm", Dec(2229, -2), Dec(2329, -2), Fl(380), Zero, Zero),
      Layer("Aussenmantel (PVC)", Dec(2329, -2), Dec(2579, -2), Dec(16, -2), Zero, Zero)>>
create_enhanced_mv_cable_in_air(current, ambient_temp, air_velocity) ==
    [NewEnhanced EXCEPT
        !.layers = EnhancedMVLayers,
        !.current = current,
        !.ambient_temp = ambient_temp,
        !.convection_params = ConvectionParameters(air_velocity, ambient_temp, Dec(52, -3)),
        !.radiation_params = RadiationParameters(Dec(9, -1), ambient_temp),
        !.installation_method = "in_air",
        !.frequency = Fl(50),
        !.has_shield = TRUE,
        !.shield_resistance = Dec(1, -4),
        !.shield_radius = Dec(2329, -2)]

InAir(c) == c.installation_method = "in_air"

\* conductor.outer_radius / 1000 and self.layers[-1].outer_radius / 1000
ConductorRadius(c) == FDiv[c.layers[1].outer_radius, Fl(1000)]
OuterRadius(c) == FDiv[c.layers[Len(c.layers)].outer_radius, Fl(1000)]

\* r_dc = conductor.get_electrical_resistance(temperature): the argument
\* binds the first parameter, length; temperature keeps its default 20.0.
r_dc(c, temperature) == get_electrical_resistance(c.layers[1], temperature, Fl(20))

\* The skin-effect branch: r_ac, or r_dc where frequency <= 0.
SkinResistance(c, rdc) ==
    IF FGt(c.frequency, Zero)
    THEN calculate_ac_resistance[rdc, ConductorRadius(c), c.frequency,
                                 c.layers[1].resistivity]
    ELSE Ok(rdc)

\* The proximity branch: k_proximity, or 1.0 for a single cable.
ProximityFactor(c) ==
    IF c.num_cables > 1
    THEN calculate_proximity_factor[ConductorRadius(c), c.cable_spacing, c.num_cables]
    ELSE Ok(One)

\* The shield branch.
ShieldOfInductance[i \in Float, shield_resistance \in Float, mutual_inductance \in Result, frequency \in Float] ==
    IF mutual_inductance.err # "none" THEN mutual_inductance
    ELSE Ok(calculate_shield_losses[i, shield_resistance, mutual_inductance.val,
                                    frequency])
ShieldLosses(c, i) ==
    IF c.has_shield /\ FGt(c.shield_radius, Zero)
    THEN ShieldOfInductance[i, c.shield_resistance,
             calculate_mutual_inductance[ConductorRadius(c),
                                         FDiv[c.shield_radius, Fl(1000)]],
             c.frequency]
    ELSE Ok(Zero)

NoLosses ==
    [err |-> "none", r_dc |-> Zero, losses_dc |-> Zero, losses_ac |-> Zero,
     skin_factor |-> Zero, losses_proximity |-> Zero, proximity_factor |-> Zero,
     losses_shield |-> Zero, losses_total |-> Zero]
LossFailure(x) == [NoLosses EXCEPT !.err = x]

\* The results dictionary of calculate_enhanced_losses, and its local r_dc.
LossResults[i \in Float, rdc \in Float, r_ac \in Result, k_proximity \in Result, shield \in Result] ==
    IF r_ac.err # "none" THEN LossFailure(r_ac.err)
    ELSE IF k_proximity.err # "none" THEN LossFailure(k_proximity.err)
    ELSE IF shield.err # "none" THEN LossFailure(shield.err)
    ELSE LET losses_ac == FMul[FMul[i, i], r_ac.val]
             losses_proximity == FMul[losses_ac, k_proximity.val]
         IN [err |-> "none", r_dc |-> rdc,
             losses_dc |-> FMul[FMul[i, i], rdc],
             losses_ac |-> losses_ac,
             skin_factor |-> IF FGt(rdc, Zero) THEN FDiv[r_ac.val, rdc] ELSE One,
             losses_proximity |-> losses_proximity,
             proximity_factor |-> k_proximity.val,
             losses_shield |-> shield.val,
             losses_total |-> FAdd[losses_proximity, shield.val]]

\* EnhancedCableConfiguration.calculate_enhanced_losses; self.layers[0] of an
\* empty list raises.
calculate_enhanced_losses(c, i, temperature) ==
    IF Len(c.layers) = 0 THEN LossFailure("IndexError")
    ELSE LossResults[i, r_dc(c, temperature),
                     SkinResistance(c, r_dc(c, temperature)),
                     ProximityFactor(c), ShieldLosses(c, i)]

\* surface_temp = self.ambient_temp + 20
SurfaceEstimate(c) == FAdd[c.ambient_temp, Fl(20)]

\* The local surface_temp as the call leaves it: assigned in the convection
\* and the radiation branch only (0 stands for unassigned).
SurfaceTemp(c) ==
    IF InAir(c) /\ (~c.convection_params.is_none \/ ~c.radiation_params.is_none)
    THEN SurfaceEstimate(c)
    ELSE Zero

\* surface_area = 2 * math.pi * outer_radius * 1.0
SurfaceArea(c) == FMul[FMul[FMul[Two, Pi], OuterRadius(c)], One]

\* 1 / (h * surface_area) for h > 0, else the fallback.
FilmResistance[h \in Float, surface_area \in Float, fallback \in Float] ==
    IF FGt(h, Zero)
    THEN IF IsZero(FMul[h, surface_area]) THEN Raise("ZeroDivisionError")
         ELSE Ok(FDiv[One, FMul[h, surface_area]])
    ELSE Ok(fallback)

r_convection(c) ==
    IF InAir(c) /\ ~c.convection_params.is_none
    THEN IF Len(c.layers) = 0 THEN Raise("IndexError")
         ELSE FilmResistance[
                 calculate_heat_transfer_coefficient[c.convection_params,
                                                     SurfaceEstimate(c)],
                 SurfaceArea(c), Fl(10)]
    ELSE Ok(Zero)

r_radiation(c) ==
    IF InAir(c) /\ ~c.radiation_params.is_none
    THEN IF Len(c.layers) = 0 THEN Raise("IndexError")
         ELSE FilmResistance[
                 calculate_radiation_coefficient[c.radiation_params,
                                                 SurfaceEstimate(c)],
                 SurfaceArea(c), Fl(100)]
    ELSE Ok(Zero)

\* The two film resistances added in place of combined in parallel.
SeriesResistance(rc, rr) == FAdd[rc, rr]

\* r_parallel = 1 / (1/r_convection + 1/r_radiation), both positive
ParallelResistance(rc, rr) == FDiv[One, FAdd[FDiv[One, rc], FDiv[One, rr]]]

\* results['r_external_enhanced']
r_external_enhanced(rc, rr, r_external) ==
    IF FGt(rc, Zero) \/ FGt(rr, Zero)
    THEN IF FGt(rc, Zero) /\ FGt(rr, Zero) THEN ParallelResistance(rc, rr)
         ELSE IF FGt(rc, Zero) THEN rc
         ELSE rr
    ELSE r_external

\* grouping_factor: self.layers[-1] and the division by the diameter come
\* before the call.
GroupingFactor(c) ==
    IF Len(c.layers) = 0 THEN Raise("IndexError")
    ELSE IF IsZero(c.layers[Len(c.layers)].outer_radius) THEN Raise("ZeroDivisionError")
    ELSE Ok(get_grouping_factor[c.num_cables,
               FDiv[c.cable_spacing,
                    FDiv[FMul[Two, c.layers[Len(c.layers)].outer_radius], Fl(1000)]]])

\* r_soil, of a cable that is not in air; math.log raises on an argument <= 0.
SoilOfRatio[soil_thermal_resistivity \in Float, ratio \in Float] ==
    IF FLe(ratio, Zero) THEN Raise("ValueError")
    ELSE Ok(FMul[FDiv[soil_thermal_resistivity, FMul[Two, Pi]], FLn[ratio]])
r_soil(c) ==
    IF InAir(c) THEN Ok(Zero)
    ELSE IF Len(c.layers) = 0 THEN Raise("IndexError")
    ELSE IF IsZero(OuterRadius(c)) THEN Raise("ZeroDivisionError")
    ELSE SoilOfRatio[get_soil_thermal_resistivity(c.soil_type, c.soil_moisture),
                     FDiv[FMul[Two, c.burial_depth], OuterRadius(c)]]

NoThermal ==
    [err |-> "none", surface_temp |-> Zero, r_conduction |-> Zero,
     r_external |-> Zero, r_convection |-> Zero, r_radiation |-> Zero,
     r_external_enhanced |-> Zero, grouping_factor |-> Zero,
     installation_factor |-> Zero, soil_thermal_resistivity |-> Zero,
     r_soil |-> Zero, r_total |-> Zero]
ThermalFailure(x) == [NoThermal EXCEPT !.err = x]

\* The results dictionary of calculate_enhanced_thermal_resistance, and the
\* local surface_temp.
ThermalResults[in_air \in BOOLEAN, surface_temp \in Float, rcond \in Result, rext \in Result, rconv \in Result, rrad \in Result, grouping \in Result, installation_factor \in Float, soil \in Float, rsoil \in Result] ==
    IF rcond.err # "none" THEN ThermalFailure(rcond.err)
    ELSE IF rext.err # "none" THEN ThermalFailure(rext.err)
    ELSE IF rconv.err # "none" THEN ThermalFailure(rconv.err)
    ELSE IF rrad.err # "none" THEN ThermalFailure(rrad.err)
    ELSE IF grouping.err # "none" THEN ThermalFailure(grouping.err)
    ELSE IF rsoil.err # "none" THEN ThermalFailure(rsoil.err)
    ELSE LET enhanced == r_external_enhanced(rconv.val, rrad.val, rext.val)
             r_total == IF in_air THEN FAdd[rcond.val, enhanced]
                        ELSE FAdd[rcond.val, rsoil.val]
         IN [err |-> "none", surface_temp |-> surface_temp,
             r_conduction |-> rcond.val, r_external |-> rext.val,
             r_convection |-> rconv.val, r_radiation |-> rrad.val,
             r_external_enhanced |-> enhanced,
             grouping_factor |-> grouping.val,
             installation_factor |-> installation_factor,
             soil_thermal_resistivity |-> soil,
             r_soil |-> rsoil.val,
             r_total |-> FDiv[r_total, FMul[grouping.val, installation_factor]]]

\* EnhancedCableConfiguration.calculate_enhanced_thermal_resistance
calculate_enhanced_thermal_resistance(c) ==
    ThermalResults[InAir(c), SurfaceTemp(c),
                   SumResistance(c.layers, Len(c.layers), Ok(Zero)),
                   SumResistance(c.external_layers, Len(c.external_layers), Ok(Zero)),
                   r_convection(c), r_radiation(c), GroupingFactor(c),
                   get_installation_method_factor(c.installation_method),
                   get_soil_thermal_resistivity(c.soil_type, c.soil_moisture),
                   r_soil(c)]

----------------------------------------------------------------------------
(* calculate_conductor_temperature_enhanced                                *)

\* The calls of the enhanced model that a behaviour holds at most.
MaxEnhancedCalls == 1

\* range(20)
EnhancedIterations == 20
\* abs(t_new - t_conductor) < 0.05
EnhancedTol == Dec(5, -2)

EnterEnhanced(c) ==
    [t_conductor |-> FAdd[c.ambient_temp, Fl(50)], iteration |-> 0,
     loss_results |-> NoLosses, thermal_results |-> NoThermal]

\* t_conductor = 0.5 * t_new + 0.5 * t_conductor
Damped(t_new, t_conductor) == FAdd[FMul[Half, t_new], FMul[Half, t_conductor]]

\* The convergence test and what follows it in one pass of the loop.
EnhancedTest(c, f, t_new) ==
    IF FLt(FAbs[FSub[t_new, f.t_conductor]], EnhancedTol)
    THEN [err |-> "none", exit |-> TRUE, t_new |-> t_new,
          frame |-> [f EXCEPT !.t_conductor = t_new]]
    ELSE IF f.iteration + 1 < EnhancedIterations
    THEN [err |-> "none", exit |-> FALSE, t_new |-> t_new,
          frame |-> [f EXCEPT !.t_conductor = Damped(t_new, f.t_conductor),
                              !.iteration = f.iteration + 1]]
    ELSE [err |-> "none", exit |-> TRUE, t_new |-> t_new,
          frame |-> [f EXCEPT !.t_conductor = Damped(t_new, f.t_conductor)]]

\* The loop body on frame f, the loss results l and thermal results th
\* computed.
EnhancedBody(c, f, l, th) ==
    IF l.err # "none"
    THEN [err |-> l.err, exit |-> TRUE, t_new |-> Zero, frame |-> f]
    ELSE IF th.err # "none"
    THEN [err |-> th.err, exit |-> TRUE, t_new |-> Zero,
          frame |-> [f EXCEPT !.loss_results = l]]
    ELSE EnhancedTest(c, [f EXCEPT !.loss_results = l, !.thermal_results = th],
                      FAdd[c.ambient_temp, FMul[l.losses_total, th.r_total]])

\* The results dictionary of calculate_conductor_temperature_enhanced.
EnhancedResult(c, f) ==
    [err |-> "none", op |-> "calculate_conductor_temperature_enhanced",
     losses |-> f.loss_results, thermal |-> f.thermal_results,
     conductor_temperature |-> f.t_conductor,
     temperature_rise |-> FSub[f.t_conductor, c.ambient_temp],
     iterations |-> ReportedIterations(f.iteration)]

EnhancedCall ==
    /\ pc = "idle"
    /\ Len(runs) < MaxEnhancedCalls
    /\ IsEnhanced(cable)
    /\ pc' = "ce_loop"
    /\ caller' = "calculate_conductor_temperature_enhanced"
    /\ frame' = EnterEnhanced(cable)
    /\ trace' = <<>>
    /\ UNCHANGED <<cable, search, ret, runs, group, heating, materials, analysis, optimizer, ampacity, gui, diary>>

EnhancedIter ==
    /\ pc = "ce_loop"
    /\ \E l \in {calculate_enhanced_losses(cable, CurrentF(cable.current),
                                            frame.t_conductor)},
          th \in {calculate_enhanced_thermal_resistance(cable)} :
       \E b \in {EnhancedBody(cable, frame, l, th)} :
          /\ frame' = b.frame
          /\ trace' = Append(trace, [t |-> frame.t_conductor, t_new |-> b.t_new,
                                     r_dc |-> l.r_dc,
                                     losses |-> l.losses_total,
                                     surface_temp |-> th.surface_temp,
                                     r_thermal |-> th.r_total])
          /\ IF b.err # "none"
             THEN Propagate(b.err)
             ELSE /\ pc' = IF b.exit THEN "ce_return" ELSE "ce_loop"
                  /\ UNCHANGED <<ret, runs, caller>>
    /\ UNCHANGED <<cable, search, group, heating, materials, analysis, optimizer, ampacity, gui, diary>>

EnhancedReturn ==
    /\ pc = "ce_return"
    /\ \E r \in {EnhancedResult(cable, frame)} :
          /\ ret' = r
          /\ runs' = Append(runs, [current |-> cable.current, ret |-> r])
    /\ pc' = "idle"
    /\ caller' = "none"
    /\ UNCHANGED <<cable, frame, search, trace, group, heating, materials, analysis, optimizer, ampacity, gui, diary>>

\* cable.calculate_enhanced_thermal_resistance(), called on its own.
EnhancedResistanceResult(th) ==
    [err |-> th.err, op |-> "calculate_enhanced_thermal_resistance", thermal |-> th]

EnhancedResistanceCall ==
    /\ pc = "idle"
    /\ Len(runs) < MaxEnhancedCalls
    /\ IsEnhanced(cable)
    /\ \E th \in {calculate_enhanced_thermal_resistance(cable)} :
          /\ ret' = EnhancedResistanceResult(th)
          /\ runs' = Append(runs, [current |-> cable.current,
                                   ret |-> EnhancedResistanceResult(th)])
    /\ UNCHANGED <<cable, pc, caller, frame, search, trace, group, heating,
                 materials, analysis, optimizer, ampacity, gui, diary>>

\* cable.current = i, as the callers of the model do between calls.
SetCurrent ==
    /\ pc = "idle"
    /\ Len(runs) < MaxCalls
    /\ \E i \in Currents :
          /\ i # cable.current
          /\ cable' = [cable EXCEPT !.current = i]
    /\ UNCHANGED <<pc, caller, frame, search, ret, runs, trace, group,
                 heating, materials, analysis, optimizer, ampacity, gui, diary>>

\* layer.get_thermal_resistance() on the first layer of the configuration.
ThermalResistanceResult(layer) ==
    [err |-> get_thermal_resistance(layer).err, op |-> "get_thermal_resistance",
     value |-> get_thermal_resistance(layer).val]

ThermalResistanceCall ==
    /\ pc = "idle"
    /\ Len(runs) < MaxCalls
    /\ HasConductor(cable)
    /\ \E r \in {ThermalResistanceResult(get_conductor_layer(cable))} :
          /\ ret' = r
          /\ runs' = Append(runs, [current |-> cable.current, ret |-> r])
    /\ UNCHANGED <<cable, pc, caller, frame, search, trace, group, heating,
                 materials, analysis, optimizer, ampacity, gui, diary>>

----------------------------------------------------------------------------
(* A configuration built layer by layer, and its total resistance.         *)

\* Layers a configuration holds at most.
MaxLayers == 3

\* The layers a caller adds: insulation, a degenerate tape, soil.
LayerPool ==
    {Layer("Insulation", Dec(87, -1), Dec(149, -1), Dec(286, -3), Zero, Zero),
     Layer("Tape", Dec(149, -1), Dec(149, -1), Dec(2, -1), Zero, Zero),
     Layer("Soil", Dec(149, -1), Fl(1000), One, Zero, Zero)}

\* cable.add_layer(layer) / cable.add_external_layer(layer)
AddLayerCall ==
    /\ pc = "idle"
    /\ Len(cable.layers) + Len(cable.external_layers) < MaxLayers
    /\ \E layer \in LayerPool :
          \/ cable' = add_layer(cable, layer)
          \/ cable' = add_external_layer(cable, layer)
    /\ UNCHANGED <<pc, caller, frame, search, ret, runs, trace, group,
                 heating, materials, analysis, optimizer, ampacity, gui, diary>>

TotalResistanceResult(r) ==
    [err |-> r.err, op |-> "get_total_thermal_resistance", value |-> r.val]

\* cable.get_total_thermal_resistance(); the run keeps the configuration the
\* call was made on.
TotalResistanceCall ==
    /\ pc = "idle"
    /\ Len(runs) < MaxCalls
    /\ \E r \in {get_total_thermal_resistance(cable)} :
          /\ ret' = TotalResistanceResult(r)
          /\ runs' = Append(runs, [current |-> cable.current,
                                   ret |-> TotalResistanceResult(r),
                                   config |-> cable])
    /\ UNCHANGED <<cable, pc, caller, frame, search, trace, group, heating,
                 materials, analysis, optimizer, ampacity, gui, diary>>

----------------------------------------------------------------------------
(* cable_spacing_optimization.py: CablePosition, MutualHeatingModel and    *)
(* CableGroupConfiguration.  Positions in m.  group is the object,         *)
(* heating the locals of                                                   *)
(* calculate_conductor_temperatures_with_mutual_heating.                   *)

CablePosition(x, y, cable_config, load_factor) ==
    [x |-> x, y |-> y, cable_config |-> cable_config, load_factor |-> load_factor]

\* math.sqrt((self.x - other.x)**2 + (self.y - other.y)**2)
distance_to(a, b) ==
    FSqrt[FAdd[FMul[FSub[a.x, b.x], FSub[a.x, b.x]],
               FMul[FSub[a.y, b.y], FSub[a.y, b.y]]]]

\* 2 * depth / distance, the argument of math.log.
DepthRatio(distance, depth) == FDiv[FMul[Two, depth], distance]

\* MutualHeatingModel.calculate_mutual_thermal_resistance: 0.0 for a
\* distance <= 0; math.log raises ValueError on an argument <= 0.
calculate_mutual_thermal_resistance(distance, depth, soil_resistivity) ==
    IF FLe(distance, Zero) THEN Ok(Zero)
    ELSE IF FLe(DepthRatio(distance, depth), Zero) THEN Raise("ValueError")
    ELSE Ok(FMax[Zero, FMul[FDiv[soil_resistivity, FMul[Two, Pi]],
                            FLn[DepthRatio(distance, depth)]]])

\* CableGroupConfiguration.__init__
CableGroupConfiguration(soil_resistivity, ambient_temp, soil_temp_gradient) ==
    [cables |-> <<>>, soil_resistivity |-> soil_resistivity,
     ambient_temp |-> ambient_temp, soil_temp_gradient |-> soil_temp_gradient]

\* CableGroupConfiguration.add_cable
add_cable(g, x, y, cable_config, load_factor) ==
    [g EXCEPT !.cables = Append(@, CablePosition(x, y, cable_config, load_factor))]

\* R_matrix[i, j] of calculate_mutual_heating_matrix: 0 on the diagonal, the
\* depth that of cable i.
MatrixEntry(g, i, j) ==
    IF i = j THEN Ok(Zero)
    ELSE calculate_mutual_thermal_resistance(
             distance_to(g.cables[i], g.cables[j]), g.cables[i].y,
             g.soil_resistivity)

\* CableGroupConfiguration.calculate_mutual_heating_matrix; an exception of
\* one entry is the exception of the call.
calculate_mutual_heating_matrix(g) ==
    LET n == Len(g.cables)
        entries == [i \in 1..n |-> [j \in 1..n |-> MatrixEntry(g, i, j)]]
    IN IF \E i \in 1..n, j \in 1..n : entries[i][j].err # "none"
       THEN Raise("ValueError")
       ELSE [err |-> "none",
             val |-> [i \in 1..n |-> [j \in 1..n |-> entries[i][j].val]]]

NoGroup == CableGroupConfiguration(One, Fl(20), Dec(3, -2))
NoHeating ==
    [R_mutual |-> <<>>, conductor_temps |-> <<>>, cable_losses |-> <<>>,
     temp_old |-> <<>>, temp_without_mutual |-> <<>>, iteration |-> 0, i |-> 0,
     phase |-> "none"]

\* The rows of equal cables: their size, currents and spacings in m.
MaxCables == 3
RowCurrents == {0, Amps(400), Amps(5000)}
RowSpacings == {Dec(5, -1), Dec(1, -1)}

\* Calls made on one group.
MaxGroupCalls == 1

MutualIterations == 20
ConvergenceThreshold == Dec(1, -1)

\* ambient_at_depth = self.ambient_temp + self.soil_temp_gradient * cable_pos.y
AmbientAtDepth(g, i) ==
    FAdd[g.ambient_temp, FMul[g.soil_temp_gradient, g.cables[i].y]]

\* cable.ambient_temp = ambient_at_depth, on the configuration of cable i.
SetAmbient(g, i) ==
    [g EXCEPT !.cables[i].cable_config.ambient_temp = AmbientAtDepth(g, i)]

\* sum(cable_losses[j] * R_mutual[i, j] for j in range(n) if j != i), its
\* first j terms.
RECURSIVE MutualSum(_, _, _, _)
MutualSum(cable_losses, row, i, j) ==
    IF j = 0 THEN Zero
    ELSE IF j = i THEN MutualSum(cable_losses, row, i, j - 1)
    ELSE FAdd[MutualSum(cable_losses, row, i, j - 1),
              FMul[cable_losses[j], row[j]]]

\* np.max(np.abs(conductor_temps - temp_old)) < convergence_threshold
GroupConverged(conductor_temps, temp_old) ==
    \A k \in 1..Len(conductor_temps) :
        FLt(FAbs[FSub[conductor_temps[k], temp_old[k]]], ConvergenceThreshold)

MutualOp == "calculate_conductor_temperatures_with_mutual_heating"

\* cable.calculate_conductor_temperature() on the configuration of cable i.
SolveCable(g, i) ==
    /\ cable' = g.cables[i].cable_config
    /\ frame' = EnterTemperature(g.cables[i].cable_config)
    /\ trace' = <<>>
    /\ pc' = "ct_loop"

\* The results list of the call: (i, conductor_temps[i], mutual_heating).
MutualResult(h) ==
    [err |-> "none", op |-> MutualOp,
     value |-> [k \in 1..Len(h.conductor_temps) |->
                  [index |-> k - 1,
                   conductor_temp |-> h.conductor_temps[k],
                   mutual_heating |-> MutualSum(h.cable_losses, h.R_mutual[k], k,
                                                Len(h.cable_losses))]]]

\* The call entered on the group g: [] for an empty group; else the matrix,
\* and the solver on the first cable at its ambient temperature in depth.
EnterMutualHeating(g) ==
    \E R \in {calculate_mutual_heating_matrix(g)} :
       IF Len(g.cables) = 0 \/ R.err # "none"
       THEN /\ \E r \in {IF R.err # "none" THEN Failure(MutualOp, R.err)
                         ELSE MutualResult(NoHeating)} :
                  /\ ret' = r
                  /\ runs' = Append(runs, [current |-> cable.current, ret |-> r])
            /\ group' = g
            /\ UNCHANGED <<cable, pc, caller, frame, trace, heating>>
       ELSE /\ group' = SetAmbient(g, 1)
            /\ heating' =
                  [R_mutual |-> R.val,
                   conductor_temps |-> [k \in 1..Len(g.cables) |-> Zero],
                   cable_losses |-> [k \in 1..Len(g.cables) |-> Zero],
                   temp_old |-> [k \in 1..Len(g.cables) |-> Zero],
                   temp_without_mutual |-> [k \in 1..Len(g.cables) |-> Zero],
                   iteration |-> 0, i |-> 1, phase |-> "initial"]
            /\ caller' = MutualOp
            /\ SolveCable(SetAmbient(g, 1), 1)
            /\ UNCHANGED <<ret, runs>>

\* The user's call on the group.
MutualHeatingCall ==
    /\ pc = "idle"
    /\ Len(runs) < MaxGroupCalls
    /\ EnterMutualHeating(group)
    /\ UNCHANGED <<search, materials, analysis, optimizer, ampacity, gui, diary>>

\* The first loop: the solver has returned for cable i.
\* conductor_temps[i] = temp; cable_losses[i] = losses_W_per_m * load_factor.
MutualHeatingInitial ==
    /\ pc = "ct_return"
    /\ caller = MutualOp
    /\ heating.phase = "initial"
    /\ \E h \in {[heating EXCEPT
                    !.conductor_temps[heating.i] = frame.t_conductor,
                    !.temp_without_mutual[heating.i] = frame.t_conductor,
                    !.cable_losses[heating.i] =
                        FMul[frame.losses, group.cables[heating.i].load_factor]]} :
          IF heating.i < Len(group.cables)
          THEN /\ group' = SetAmbient(group, heating.i + 1)
               /\ heating' = [h EXCEPT !.i = heating.i + 1]
               /\ SolveCable(SetAmbient(group, heating.i + 1), heating.i + 1)
          ELSE /\ heating' = [h EXCEPT !.phase = "sweep", !.i = 1,
                                       !.temp_old = h.conductor_temps]
               /\ SolveCable(group, 1)
               /\ UNCHANGED group
    /\ UNCHANGED <<caller, search, ret, runs, materials, analysis, optimizer, ampacity, gui, diary>>

\* conductor_temps[i] = temp_without_mutual + mutual_heating
WithMutual(temp_without_mutual, mutual_heating) ==
    FAdd[temp_without_mutual, mutual_heating]

\* One cable of one sweep, the solver returned for it; after the last cable
\* the test of convergence.
MutualHeatingSweep ==
    /\ pc = "ct_return"
    /\ caller = MutualOp
    /\ heating.phase = "sweep"
    /\ \E t \in {WithMutual(frame.t_conductor,
                            MutualSum(heating.cable_losses,
                                      heating.R_mutual[heating.i], heating.i,
                                      Len(heating.cable_losses)))} :
       \E l \in {calculate_conductor_losses(cable, t)} :
       \E h \in {[heating EXCEPT
                    !.conductor_temps[heating.i] = t,
                    !.temp_without_mutual[heating.i] = frame.t_conductor,
                    !.cable_losses[heating.i] =
                        FMul[l.val, group.cables[heating.i].load_factor]]} :
          IF heating.i < Len(group.cables)
          THEN /\ heating' = [h EXCEPT !.i = heating.i + 1]
               /\ SolveCable(group, heating.i + 1)
          ELSE IF GroupConverged(h.conductor_temps, h.temp_old)
                  \/ heating.iteration + 1 >= MutualIterations
          THEN /\ heating' = [h EXCEPT !.phase = "results"]
               /\ pc' = "mh_return"
               /\ UNCHANGED <<cable, frame, trace>>
          ELSE /\ heating' = [h EXCEPT !.iteration = heating.iteration + 1,
                                       !.i = 1, !.temp_old = h.conductor_temps]
               /\ SolveCable(group, 1)
    /\ UNCHANGED <<caller, search, ret, runs, group, materials, analysis, optimizer, ampacity, gui, diary>>

\* The last loop and the return.
MutualHeatingReturn ==
    /\ pc = "mh_return"
    /\ \E r \in {MutualResult(heating)} :
          /\ ret' = r
          /\ runs' = Append(runs, [current |-> cable.current, ret |-> r])
    /\ pc' = "idle"
    /\ caller' = "none"
    /\ UNCHANGED <<cable, frame, search, trace, group, heating, materials, analysis, optimizer, ampacity, gui, diary>>

----------------------------------------------------------------------------
(* material_database.py and thermal_calculator.py.  materials maps a name  *)
(* to its lambda; a material name passed to the calculator is a record     *)
(* that says whether the value is a str at all.                            *)

\* MaterialDatabase.MATERIALS, the entries the calls below use.
MATERIALS ==
    [name \in {"Kupfer", "Mineralwolle", "Holz (Weich)"} |->
        CASE name = "Kupfer" -> Fl(380)
          [] name = "Mineralwolle" -> Dec(4, -2)
          [] name = "Holz (Weich)" -> Dec(13, -2)]

Str(text) == [is_str |-> TRUE, text |-> text]
NotStr == [is_str |-> FALSE, text |-> "5"]

\* MaterialDatabase.get_lambda: None for a name that is no key.
get_lambda(db, material_name) ==
    IF material_name.is_str /\ material_name.text \in DOMAIN db
    THEN db[material_name.text]
    ELSE None

\* MaterialDatabase.add_custom_material: no check of the values.
add_custom_material(db, name, lambda_value) ==
    [n \in DOMAIN db \cup {name} |-> IF n = name THEN lambda_value ELSE db[n]]

\* Calls of the calculator made in one session.
MaxCalculatorCalls == 1

CustomMaterials == {<<"Vakuum", Zero>>, <<"Anti", Dec(-5, -1)>>}

AddCustomMaterial ==
    /\ pc = "idle"
    /\ Len(runs) < MaxCalculatorCalls
    /\ \E cm \in CustomMaterials :
          /\ cm[1] \notin DOMAIN materials
          /\ materials' = add_custom_material(materials, cm[1], cm[2])
    /\ UNCHANGED <<cable, pc, caller, frame, search, ret, runs, trace, group, heating, analysis, optimizer, ampacity, gui, diary>>

\* The quotient the other way round.
Conductance(thickness, lambda_value) == FDiv[lambda_value, thickness]

\* thermal_resistance = thickness / lambda_value
PlanarResistance(thickness, lambda_value) == FDiv[thickness, lambda_value]

\* ThermalCalculator.calculate_heat_flow
calculate_heat_flow(db, material_name, area, thickness, temp_diff) ==
    IF ~material_name.is_str \/ material_name.text = ""
    THEN Failure("calculate_heat_flow", "ValueError")
    ELSE IF FLe(area, Zero) THEN Failure("calculate_heat_flow", "ValueError")
    ELSE IF FLe(thickness, Zero) THEN Failure("calculate_heat_flow", "ValueError")
    ELSE IF get_lambda(db, material_name) = None
    THEN Failure("calculate_heat_flow", "ValueError")
    ELSE IF FLe(get_lambda(db, material_name), Zero)
    THEN Failure("calculate_heat_flow", "ValueError")
    ELSE LET lambda_value == get_lambda(db, material_name)
             heat_flow == FDiv[FMul[FMul[lambda_value, area], temp_diff], thickness]
         IN [err |-> "none", op |-> "calculate_heat_flow",
             heat_flow_W |-> heat_flow,
             heat_flux_W_m2 |-> FDiv[heat_flow, area],
             thermal_resistance_m2K_W |-> PlanarResistance(thickness, lambda_value),
             lambda_W_mK |-> lambda_value,
             material |-> material_name]

R_si == Dec(13, -2)
R_se == Dec(4, -2)
\* float('inf')
Infinity == [inf |-> TRUE]

\* One pass of the loop of calculate_u_value over (material_name, thickness):
\* ValueError for a name without lambda, ZeroDivisionError for lambda 0.
AddWallLayer(db, acc, layer) ==
    IF acc.err # "none" THEN acc
    ELSE IF get_lambda(db, layer.material) = None
    THEN [acc EXCEPT !.err = "ValueError"]
    ELSE IF IsZero(get_lambda(db, layer.material))
    THEN [acc EXCEPT !.err = "ZeroDivisionError"]
    ELSE LET lambda_value == get_lambda(db, layer.material)
             R == FDiv[layer.thickness, lambda_value]
         IN [acc EXCEPT !.R_total = FAdd[acc.R_total, R],
                        !.layers = Append(@, [material |-> layer.material,
                                              thickness_m |-> layer.thickness,
                                              lambda_W_mK |-> lambda_value,
                                              resistance_m2K_W |-> R])]

RECURSIVE WallLoop(_, _, _)
WallLoop(db, layers, k) ==
    IF k = 0 THEN [err |-> "none", R_total |-> FAdd[R_si, R_se], layers |-> <<>>]
    ELSE AddWallLayer(db, WallLoop(db, layers, k - 1), layers[k])

\* ThermalCalculator.calculate_u_value
calculate_u_value(db, layers) ==
    IF Len(layers) = 0 THEN Failure("calculate_u_value", "ValueError")
    ELSE LET acc == WallLoop(db, layers, Len(layers))
         IN IF acc.err # "none" THEN Failure("calculate_u_value", acc.err)
            ELSE [err |-> "none", op |-> "calculate_u_value",
                  u_value_W_m2K |-> IF FGt(acc.R_total, Zero)
                                    THEN FDiv[One, acc.R_total] ELSE Infinity,
                  total_resistance_m2K_W |-> acc.R_total,
                  R_si |-> R_si, R_se |-> R_se, layers |-> acc.layers]

\* The check at the head of calculate_temperature_distribution: every layer
\* has thickness > 0 and points > 0.
LayersValid(layers) ==
    /\ Len(layers) > 0
    /\ \A k \in 1..Len(layers) :
          FGt(layers[k].thickness, Zero) /\ layers[k].points > 0

\* One point of a layer: x = (i + 1) / points * thickness,
\* temp = temperatures[-1] - (q * x / lambda_value).
PointStep(acc, q, layer, lambda_value, i) ==
    [temperatures |->
        Append(acc.temperatures,
               FSub[acc.temperatures[Len(acc.temperatures)],
                    FDiv[FMul[q, FMul[FDiv[Fl(i + 1), Fl(layer.points)],
                                      layer.thickness]],
                         lambda_value]]),
     current_position |->
        FAdd[acc.current_position, FDiv[layer.thickness, Fl(layer.points)]],
     positions |->
        Append(acc.positions,
               FAdd[acc.current_position, FDiv[layer.thickness, Fl(layer.points)]])]

\* for i in range(points), its first n passes.
RECURSIVE PointLoop(_, _, _, _, _)
PointLoop(acc, q, layer, lambda_value, n) ==
    IF n = 0 THEN acc
    ELSE PointStep(PointLoop(acc, q, layer, lambda_value, n - 1), q, layer,
                   lambda_value, n - 1)

\* for material_name, thickness, points in layers, its first k passes.
RECURSIVE LayerLoop(_, _, _, _, _)
LayerLoop(db, layers, q, start, k) ==
    IF k = 0 THEN start
    ELSE PointLoop(LayerLoop(db, layers, q, start, k - 1), q, layers[k],
                   get_lambda(db, layers[k].material), layers[k].points)

\* The dictionary returned, from the flux q and the points of the layers.
Distribution(q, u, acc, temp_inside, temp_outside) ==
    [err |-> "none", op |-> "calculate_temperature_distribution",
     positions_m |-> Append(acc.positions, acc.current_position),
     temperatures_C |-> Append(acc.temperatures, temp_outside),
     heat_flux_W_m2 |-> q,
     u_value_W_m2K |-> u.u_value_W_m2K,
     temp_drop_inside |-> FSub[temp_inside, acc.temperatures[2]],
     temp_drop_outside |->
        FSub[FSub[acc.temperatures[Len(acc.temperatures)], FMul[q, R_se]],
             temp_outside]]

\* ThermalCalculator.calculate_temperature_distribution, the layers of
\* materials with a positive lambda or none.
calculate_temperature_distribution(db, layers, temp_inside, temp_outside) ==
    IF ~LayersValid(layers)
    THEN Failure("calculate_temperature_distribution", "ValueError")
    ELSE LET u == calculate_u_value(db, layers)
             q == FMul[u.u_value_W_m2K, FSub[temp_inside, temp_outside]]
         IN IF u.err # "none"
            THEN Failure("calculate_temperature_distribution", u.err)
            ELSE Distribution(q, u,
                    LayerLoop(db, layers, q,
                        [temperatures |-> <<temp_inside,
                                            FSub[temp_inside, FMul[q, R_si]]>>,
                         current_position |-> Zero,
                         positions |-> <<Zero, Zero>>],
                        Len(layers)),
                    temp_inside, temp_outside)

\* The arguments of the calls.
HeatFlowNames ==
    {Str("Kupfer"), Str("Mineralwolle"), Str("InvalidMaterial"), Str(""), NotStr,
     Str("Vakuum"), Str("Anti")}
Areas == {Fl(-1), Zero, Fl(100)}
Thicknesses == {Dec(-1, -1), Zero, Dec(1, -1)}
TempDiffs == {Fl(-10), Zero, Fl(50)}
HeatFlowArgs ==
    {[material |-> n, area |-> Fl(3), thickness |-> Dec(7, -2), temp_diff |-> Fl(13)] :
        n \in HeatFlowNames}
    \cup {[material |-> n, area |-> a, thickness |-> d, temp_diff |-> t] :
            n \in {Str("Kupfer"), Str("Mineralwolle")}, a \in Areas,
            d \in Thicknesses, t \in TempDiffs}

WallLayer(material, thickness) == [material |-> Str(material), thickness |-> thickness]
FirstLayers ==
    {WallLayer(n, d) :
        n \in {"Kupfer", "Mineralwolle", "InvalidMaterial", "Vakuum", "Anti"},
        d \in {Dec(-1, -2), Zero, Dec(1, -1)}}
NextLayers ==
    {WallLayer(n, Dec(24, -2)) : n \in {"Holz (Weich)", "InvalidMaterial", "Vakuum"}}
Walls ==
    {<<>>} \cup {<<a>> : a \in FirstLayers}
    \cup {<<a, b>> : a \in FirstLayers, b \in NextLayers}

PointLayer(material, thickness, points) ==
    [material |-> Str(material), thickness |-> thickness, points |-> points]
PointLayers ==
    {PointLayer(n, d, p) :
        n \in {"Holz (Weich)", "InvalidMaterial"}, d \in {Zero, Dec(15, -2)},
        p \in 0..2}
PointWalls ==
    {<<>>} \cup {<<a>> : a \in PointLayers}
    \cup {<<a, PointLayer("Mineralwolle", Dec(1, -1), 1)>> : a \in PointLayers}
Temperatures == {<<Fl(18), Zero>>, <<Fl(20), Fl(20)>>}

CalculatorRun(r, args) ==
    [current |-> cable.current, ret |-> r, args |-> args, materials |-> materials]

HeatFlowCall ==
    /\ pc = "idle"
    /\ Len(runs) < MaxCalculatorCalls
    /\ \E a \in HeatFlowArgs :
       \E r \in {calculate_heat_flow(materials, a.material, a.area, a.thickness,
                                     a.temp_diff)} :
          /\ ret' = r
          /\ runs' = Append(runs, CalculatorRun(r, a))
    /\ UNCHANGED <<cable, pc, caller, frame, search, trace, group, heating, materials, analysis, optimizer, ampacity, gui, diary>>

UValueCall ==
    /\ pc = "idle"
    /\ Len(runs) < MaxCalculatorCalls
    /\ \E layers \in Walls :
       \E r \in {calculate_u_value(materials, layers)} :
          /\ ret' = r
          /\ runs' = Append(runs, CalculatorRun(r, [layers |-> layers]))
    /\ UNCHANGED <<cable, pc, caller, frame, search, trace, group, heating, materials, analysis, optimizer, ampacity, gui, diary>>

TemperatureDistributionCall ==
    /\ pc = "idle"
    /\ Len(runs) < MaxCalculatorCalls
    /\ \E layers \in PointWalls, t \in Temperatures :
       \E r \in {calculate_temperature_distribution(materials, layers, t[1], t[2])} :
          /\ ret' = r
          /\ runs' = Append(runs, CalculatorRun(r, [layers |-> layers,
                                     temp_inside |-> t[1], temp_outside |-> t[2]]))
    /\ UNCHANGED <<cable, pc, caller, frame, search, trace, group, heating, materials, analysis, optimizer, ampacity, gui, diary>>

----------------------------------------------------------------------------
(* CableSpacingAnalyzer.analyze_grouping_factor.  cable is the object      *)
(* cable_config, which every position of both groups refers to; analysis   *)
(* holds the arguments and locals of the call.                             *)

\* Calls of analyze_grouping_factor on one cable_config.
MaxAnalyses == 1

NoAnalysis ==
    [phase |-> "none", calls |-> 0, num_cables |-> 0, spacing |-> Zero,
     depth |-> Zero, temps_single |-> <<>>, I_single |-> 0]

\* group_multi: add_cable(i * spacing, depth, cable_config) for i in
\* range(n), on CableGroupConfiguration(soil_resistivity).
RECURSIVE GroupOf(_, _, _, _, _)
GroupOf(n, spacing, depth, cable_config, soil_resistivity) ==
    IF n = 0 THEN CableGroupConfiguration(soil_resistivity, Fl(20), Dec(3, -2))
    ELSE add_cable(GroupOf(n - 1, spacing, depth, cable_config, soil_resistivity),
                   FMul[Fl(n - 1), spacing], depth, cable_config, One)

\* max(t[1] for t in temps), over the first k results.
RECURSIVE MaxTemp(_, _)
MaxTemp(temps, k) ==
    IF k = 1 THEN temps[1].conductor_temp
    ELSE FMax[MaxTemp(temps, k - 1), temps[k].conductor_temp]

\* The value returned from temp_single and max_temp_multi; math.sqrt raises
\* ValueError below 0, the quotient ZeroDivisionError.
DeratingFactor(temp_single, max_temp_multi) ==
    IF FLe(max_temp_multi, temp_single) THEN Ok(One)
    ELSE IF IsZero(max_temp_multi) THEN Raise("ZeroDivisionError")
    ELSE IF FLt(FDiv[temp_single, max_temp_multi], Zero) THEN Raise("ValueError")
    ELSE LET grouping_factor == FSqrt[FDiv[temp_single, max_temp_multi]]
         IN Ok(IF FLt(grouping_factor, One) THEN grouping_factor ELSE One)

\* An exception of a call made by analyze_grouping_factor leaves it.
AnalysisFails(x) ==
    /\ analysis' = [analysis EXCEPT !.phase = "done"]
    /\ ret' = Failure("analyze_grouping_factor", x)
    /\ runs' = Append(runs, [current |-> cable.current,
                             ret |-> Failure("analyze_grouping_factor", x)])
    /\ UNCHANGED <<cable, pc, caller, frame, search, trace, group, heating, optimizer, ampacity, gui, diary>>

\* The call: group_single of one cable at (0, depth), and its temperatures.
GroupingFactorCall ==
    /\ pc = "idle"
    /\ analysis.phase \in {"none", "done"}
    /\ analysis.calls < MaxAnalyses
    /\ \E n \in 1..MaxCables, spacing \in RowSpacings :
          /\ analysis' = [phase |-> "single", calls |-> analysis.calls + 1,
                          num_cables |-> n, spacing |-> spacing, depth |-> One,
                          temps_single |-> <<>>, I_single |-> 0]
          /\ EnterMutualHeating(GroupOf(1, spacing, One, cable, One))
    /\ UNCHANGED <<search, materials, optimizer, ampacity, gui, diary>>

\* temps_single is there: I_single, _ = cable_config.calculate_max_current()
GroupingFactorAmpacity ==
    /\ pc = "idle"
    /\ analysis.phase = "single"
    /\ IF ret.err # "none"
       THEN AnalysisFails(ret.err)
       ELSE /\ analysis' = [analysis EXCEPT !.phase = "ampacity",
                                            !.temps_single = ret.value]
            /\ caller' = "calculate_max_current"
            /\ Probe([i_min |-> 0, i_max |-> UpperCurrent, i_test |-> 0, k |-> 0,
                      phase |-> "probe", met |-> FALSE])
            /\ UNCHANGED <<ret, runs, group, heating>>
    /\ UNCHANGED <<materials, optimizer, ampacity, gui, diary>>

\* The search has returned: group_multi of num_cables positions with
\* cable_config as the search left it, and its temperatures.
GroupingFactorMulti ==
    /\ pc = "idle"
    /\ analysis.phase = "ampacity"
    /\ IF ret.err # "none"
       THEN AnalysisFails(ret.err)
       ELSE /\ analysis' = [analysis EXCEPT !.phase = "multi",
                                            !.I_single = ret.value]
            /\ EnterMutualHeating(GroupOf(analysis.num_cables, analysis.spacing,
                                          analysis.depth, cable, One))
            /\ UNCHANGED search
    /\ UNCHANGED <<materials, optimizer, ampacity, gui, diary>>

\* temps_multi is there: the factor, 1.0 or min(1.0, sqrt(...)).
GroupingFactorReturn ==
    /\ pc = "idle"
    /\ analysis.phase = "multi"
    /\ IF ret.err # "none"
       THEN AnalysisFails(ret.err)
       ELSE \E f \in {DeratingFactor(analysis.temps_single[1].conductor_temp,
                                     MaxTemp(ret.value, Len(ret.value)))} :
               IF f.err # "none"
               THEN AnalysisFails(f.err)
               ELSE /\ analysis' = [analysis EXCEPT !.phase = "done"]
                    /\ ret' = [err |-> "none", op |-> "analyze_grouping_factor",
                               value |-> f.val]
                    /\ runs' = Append(runs,
                          [current |-> cable.current,
                           ret |-> [err |-> "none",
                                    op |-> "analyze_grouping_factor",
                                    value |-> f.val]])
                    /\ UNCHANGED <<cable, pc, caller, frame, search, trace, group,
                                   heating>>
    /\ UNCHANGED <<materials, optimizer, ampacity, gui, diary>>

----------------------------------------------------------------------------
(* CableGroupConfiguration.optimize_cable_spacing.  optimizer holds the    *)
(* arguments and locals of the call; the spacings are those of np.arange.  *)

\* Calls of optimize_cable_spacing on one group.
MaxOptimizations == 1

\* -float('inf')
NegInfinity == [neg_inf |-> TRUE]

NoOptimizer ==
    [phase |-> "none", calls |-> 0, max_conductor_temp |-> Zero,
     min_spacing |-> Zero, spacings |-> <<>>, k |-> 0, best_spacing |-> Zero,
     best_min_temp_margin |-> NegInfinity, results_list |-> <<>>]

\* np.arange(start, stop, step) for step > 0: start + k * step for every
\* k >= 0 with start + k * step < stop; here from the k-th value on.
RECURSIVE Arange(_, _, _, _)
Arange(start, stop, step, k) ==
    IF FLt(FAdd[start, FMul[Fl(k), step]], stop)
    THEN <<FAdd[start, FMul[Fl(k), step]]>> \o Arange(start, stop, step, k + 1)
    ELSE <<>>

\* cable_pos.x = i * spacing; cable_pos.y = reference_depth, for every
\* position of the group.
Respaced(g, spacing) ==
    [g EXCEPT !.cables =
        [i \in 1..Len(g.cables) |->
            [g.cables[i] EXCEPT !.x = FMul[Fl(i - 1), spacing],
                                !.y = g.cables[1].y]]]

\* min_temp_margin > best_min_temp_margin
MarginAbove(min_temp_margin, best_min_temp_margin) ==
    best_min_temp_margin = NegInfinity \/ FGt(min_temp_margin, best_min_temp_margin)

\* One pass of the loop, the temperatures temps of the spacing computed:
\* the entry of results_list and the best spacing so far.
Tried(o, temps) ==
    LET max_temp == MaxTemp(temps, Len(temps))
        min_temp_margin == FSub[o.max_conductor_temp, max_temp]
        better == /\ MarginAbove(min_temp_margin, o.best_min_temp_margin)
                  /\ FLe(max_temp, o.max_conductor_temp)
    IN [o EXCEPT
          !.results_list = Append(@, [spacing |-> o.spacings[o.k],
                                      max_conductor_temp |-> max_temp,
                                      temp_margin |-> min_temp_margin,
                                      all_temps |-> temps]),
          !.best_min_temp_margin = IF better THEN min_temp_margin ELSE @,
          !.best_spacing = IF better THEN o.spacings[o.k] ELSE @]

\* The dictionary returned.
OptimizeResult(o, num_cables) ==
    [err |-> "none", op |-> "optimize_cable_spacing",
     max_conductor_temp |-> o.max_conductor_temp,
     value |-> [optimal_spacing |-> o.best_spacing,
                temp_margin |-> o.best_min_temp_margin,
                all_results |-> o.results_list,
                num_cables |-> num_cables]]

\* The call leaves with the outcome r.
OptimizeLeaves(o, r) ==
    /\ optimizer' = [o EXCEPT !.phase = "done"]
    /\ ret' = r
    /\ runs' = Append(runs, [current |-> cable.current, ret |-> r])

\* The spacing ranges (min_spacing, max_spacing, spacing_increment) in m and
\* the temperature limits of the calls.
SpacingRanges ==
    {<<Dec(25, -2), One, Dec(25, -2)>>, <<Dec(5, -1), Dec(25, -2), Dec(25, -2)>>}
TemperatureLimits == {Fl(90), Fl(30)}

\* The call: {"error": ...} below two cables; else the first spacing of the
\* range, or the return at once when the range is empty.
OptimizeCall ==
    /\ pc = "idle"
    /\ optimizer.phase \in {"none", "done"}
    /\ optimizer.calls < MaxOptimizations
    /\ \E limit \in TemperatureLimits, range \in SpacingRanges :
       \E o \in {[phase |-> "run", calls |-> optimizer.calls + 1,
                  max_conductor_temp |-> limit, min_spacing |-> range[1],
                  spacings |-> Arange(range[1], range[2], range[3], 0), k |-> 1,
                  best_spacing |-> range[1], best_min_temp_margin |-> NegInfinity,
                  results_list |-> <<>>]} :
          IF Len(group.cables) < 2
          THEN /\ OptimizeLeaves(o, [err |-> "none", op |-> "optimize_cable_spacing",
                                     max_conductor_temp |-> limit,
                                     value |-> [error |-> "Mindestens 2 Kabel erforderlich"]])
               /\ UNCHANGED <<cable, pc, caller, frame, trace, group, heating>>
          ELSE IF Len(o.spacings) = 0
          THEN /\ OptimizeLeaves(o, OptimizeResult(o, Len(group.cables)))
               /\ UNCHANGED <<cable, pc, caller, frame, trace, group, heating>>
          ELSE /\ optimizer' = o
               /\ EnterMutualHeating(Respaced(group, o.spacings[1]))
    /\ UNCHANGED <<search, materials, analysis, ampacity, gui, diary>>

\* The temperatures of spacing k are there: the rest of the pass, then the
\* next spacing or the return.
OptimizeStep ==
    /\ pc = "idle"
    /\ optimizer.phase = "run"
    /\ IF ret.err # "none"
       THEN /\ OptimizeLeaves(optimizer, Failure("optimize_cable_spacing", ret.err))
            /\ UNCHANGED <<cable, pc, caller, frame, trace, group, heating>>
       ELSE \E o \in {Tried(optimizer, ret.value)} :
               IF o.k < Len(o.spacings)
               THEN /\ optimizer' = [o EXCEPT !.k = o.k + 1]
                    /\ EnterMutualHeating(Respaced(group, o.spacings[o.k + 1]))
               ELSE /\ OptimizeLeaves(o, OptimizeResult(o, Len(group.cables)))
                    /\ UNCHANGED <<cable, pc, caller, frame, trace, group, heating>>
    /\ UNCHANGED <<search, materials, analysis, ampacity, gui, diary>>

----------------------------------------------------------------------------
(* cable_heat_gui.py: CableHeatCalculator.  ampacity holds the arguments   *)
(* and locals of calculate_cable_ampacity, its currents in units of        *)
(* 2^-16 A.  The 51 interpolated points per layer of detailed_temps_C are  *)
(* left out of the dictionary.                                             *)

\* Calls of calculate_cable_ampacity made in one session.
MaxAmpacityCalls == 1

\* radii[i]: r_cable = cable_diameter / 2 and the thicknesses of the first
\* i layers.
RECURSIVE LayerRadius(_, _, _)
LayerRadius(cable_diameter, layers_config, i) ==
    IF i = 0 THEN FDiv[cable_diameter, Two]
    ELSE FAdd[LayerRadius(cable_diameter, layers_config, i - 1),
              layers_config[i].thickness]

\* R_thermal = np.log(r_outer / r_inner) / (2 * np.pi * lambda_val)
CylinderResistance(r_inner, r_outer, lambda_val) ==
    FDiv[FLn[FDiv[r_outer, r_inner]], FMul[FMul[Two, Pi], lambda_val]]

\* The loop over the layers, its first k passes: ValueError for a material
\* without lambda, ZeroDivisionError for r_inner = 0.
RECURSIVE ResistanceLoop(_, _, _, _)
ResistanceLoop(db, cable_diameter, layers_config, k) ==
    IF k = 0 THEN [err |-> "none", thermal_resistances |-> <<>>]
    ELSE LET acc == ResistanceLoop(db, cable_diameter, layers_config, k - 1)
             lambda_val == get_lambda(db, layers_config[k].material)
             r_inner == LayerRadius(cable_diameter, layers_config, k - 1)
             r_outer == LayerRadius(cable_diameter, layers_config, k)
         IN IF acc.err # "none" THEN acc
            ELSE IF lambda_val = None THEN [acc EXCEPT !.err = "ValueError"]
            ELSE IF IsZero(r_inner) THEN [acc EXCEPT !.err = "ZeroDivisionError"]
            ELSE [acc EXCEPT !.thermal_resistances =
                     Append(@, CylinderResistance(r_inner, r_outer, lambda_val))]

\* sum(thermal_resistances), its first k terms.
RECURSIVE SumOf(_, _)
SumOf(thermal_resistances, k) ==
    IF k = 0 THEN Zero
    ELSE FAdd[SumOf(thermal_resistances, k - 1), thermal_resistances[k]]

\* temperatures: temp_cable_surface, then current_temp - cable_power * R for
\* each layer; its first k + 1 entries.
RECURSIVE LayerTemperatures(_, _, _, _)
LayerTemperatures(temp_cable_surface, cable_power, thermal_resistances, k) ==
    IF k = 0 THEN <<temp_cable_surface>>
    ELSE LET before == LayerTemperatures(temp_cable_surface, cable_power,
                                         thermal_resistances, k - 1)
         IN Append(before, FSub[before[k], FMul[cable_power, thermal_resistances[k]]])

\* CableHeatCalculator.calculate_cable_heat_dissipation
calculate_cable_heat_dissipation(db, cable_power, cable_diameter, layers_config, ambient_temp) ==
    LET loop == ResistanceLoop(db, cable_diameter, layers_config, Len(layers_config))
        R_total == SumOf(loop.thermal_resistances, Len(loop.thermal_resistances))
        temp_cable_surface == FAdd[ambient_temp, FMul[cable_power, R_total]]
    IN IF loop.err # "none"
       THEN Failure("calculate_cable_heat_dissipation", loop.err)
       ELSE [err |-> "none", op |-> "calculate_cable_heat_dissipation",
             cable_surface_temp_C |-> temp_cable_surface,
             ambient_temp_C |-> ambient_temp,
             temp_difference_K |-> FSub[temp_cable_surface, ambient_temp],
             total_thermal_resistance_mK_W |-> R_total,
             cable_power_W_m |-> cable_power,
             layer_temperatures_C |->
                 LayerTemperatures(temp_cable_surface, cable_power,
                                   loop.thermal_resistances,
                                   Len(loop.thermal_resistances)),
             layer_radii_m |->
                 [i \in 1..Len(layers_config) + 1 |->
                     LayerRadius(cable_diameter, layers_config, i - 1)]]

NoAmpacity ==
    [phase |-> "none", calls |-> 0, I_min |-> 0, I_max |-> 0, passes |-> 0,
     args |-> <<>>]

\* while I_max - I_min > tolerance, with tolerance = 0.1: a whole number of
\* units is above 0.1 * 2^16 = 6553.6 when it is above 6553.
BracketOpen(a) == a.I_max - a.I_min > AmpUnit \div 10

\* I_test = (I_min + I_max) / 2
I_test(a) == (a.I_min + a.I_max) \div 2

\* power = I ** 2 * conductor_resistance
PowerAt(i, conductor_resistance) ==
    FMul[FMul[CurrentF(i), CurrentF(i)], conductor_resistance]

\* The heat dissipation of the call's cable at the current i.
DissipationAt(a, i) ==
    calculate_cable_heat_dissipation(materials,
        PowerAt(i, a.args.conductor_resistance), a.args.cable_diameter,
        a.args.layers_config, a.args.ambient_temp)

\* The upper end of the bracket in place of the lower one.
UpperEnd(a) == a.I_max

\* optimal_current = I_min
optimal_current(a) == a.I_min

\* The dictionary returned.
AmpacityResult(a, final_result) ==
    [err |-> "none", op |-> "calculate_cable_ampacity",
     max_current_A |-> optimal_current(a),
     power_loss_W_m |-> PowerAt(optimal_current(a), a.args.conductor_resistance),
     conductor_temp_C |-> final_result.cable_surface_temp_C,
     thermal_result |-> final_result]

\* The arguments of the calls: a limit of 90 C at ambient temperatures below
\* and above it, a cable of 5 cm with 0.05 mOhm/m under layers of MATERIALS
\* and of an unknown material, and a cable of diameter 0.
HeatAmbients == {Fl(20), Fl(95)}
HeatLayers ==
    {<<>>,
     <<WallLayer("Mineralwolle", Dec(1, -2))>>,
     <<WallLayer("Holz (Weich)", Dec(2, -2)), WallLayer("Mineralwolle", Dec(1, -2))>>,
     <<WallLayer("Unobtainium", Dec(1, -2))>>}
AmpacityArgs ==
    [max_conductor_temp : {Fl(90)}, cable_diameter : {Dec(5, -2)},
     conductor_resistance : {Dec(5, -5)}, layers_config : HeatLayers,
     ambient_temp : HeatAmbients]
    \cup {[max_conductor_temp |-> Fl(90), cable_diameter |-> Zero,
           conductor_resistance |-> Dec(5, -5),
           layers_config |-> <<WallLayer("Mineralwolle", Dec(1, -2))>>,
           ambient_temp |-> Fl(20)]}

\* The call: I_min = 0, I_max = 10000.
AmpacityCall ==
    /\ pc = "idle"
    /\ ampacity.phase \in {"none", "done"}
    /\ ampacity.calls < MaxAmpacityCalls
    /\ \E a \in AmpacityArgs :
          ampacity' = [phase |-> "loop", calls |-> ampacity.calls + 1, I_min |-> 0,
                       I_max |-> UpperCurrent, passes |-> 0, args |-> a]
    /\ UNCHANGED <<cable, pc, caller, frame, search, ret, runs, trace, group, heating, materials, analysis, optimizer, gui, diary>>

\* One pass of the loop: the temperature at I_test moves one end of the
\* bracket; an exception of calculate_cable_heat_dissipation leaves the call.
AmpacityPass ==
    /\ ampacity.phase = "loop"
    /\ BracketOpen(ampacity)
    /\ \E result \in {DissipationAt(ampacity, I_test(ampacity))} :
          IF result.err # "none"
          THEN /\ ampacity' = [ampacity EXCEPT !.phase = "done"]
               /\ ret' = Failure("calculate_cable_ampacity", result.err)
               /\ runs' = Append(runs,
                     CalculatorRun(Failure("calculate_cable_ampacity", result.err),
                                   ampacity.args))
          ELSE /\ ampacity' =
                     IF FLt(result.cable_surface_temp_C, ampacity.args.max_conductor_temp)
                     THEN [ampacity EXCEPT !.I_min = I_test(ampacity),
                                           !.passes = @ + 1]
                     ELSE [ampacity EXCEPT !.I_max = I_test(ampacity),
                                           !.passes = @ + 1]
               /\ UNCHANGED <<ret, runs>>
    /\ UNCHANGED <<cable, pc, caller, frame, search, trace, group, heating, materials, analysis, optimizer, gui, diary>>

\* The loop is left: the heat dissipation at optimal_current, and the return.
AmpacityReturn ==
    /\ ampacity.phase = "loop"
    /\ ~BracketOpen(ampacity)
    /\ \E final_result \in {DissipationAt(ampacity, optimal_current(ampacity))} :
       \E r \in {IF final_result.err # "none"
                 THEN Failure("calculate_cable_ampacity", final_result.err)
                 ELSE AmpacityResult(ampacity, final_result)} :
          /\ ret' = r
          /\ runs' = Append(runs, CalculatorRun(r, ampacity.args))
    /\ ampacity' = [ampacity EXCEPT !.phase = "done"]
    /\ UNCHANGED <<cable, pc, caller, frame, search, trace, group, heating, materials, analysis, optimizer, gui, diary>>

----------------------------------------------------------------------------
(* arcadis_simple_thermal_gui.py: the layer list of                        *)
(* ARCADISSimpleThermalGUI, radii and thicknesses in mm.  gui holds        *)
(* cable_layers and the text of the entry conductor_diameter; the          *)
(* material properties of a layer and the widgets are left out.            *)

\* Layers the list is grown to.
MaxGuiLayers == 6

\* CableLayer.__init__ of the GUI: outer_radius_mm = inner + thickness.
GuiLayer(name, material, inner_radius_mm, thickness_mm) ==
    [name |-> name, material |-> material, inner_radius_mm |-> inner_radius_mm,
     thickness_mm |-> thickness_mm,
     outer_radius_mm |-> FAdd[inner_radius_mm, thickness_mm]]

\* The texts typed into the entry, and float() of them: ValueError for a
\* text that is no number.
DiameterTexts == {"16.0", "30.5", "abc"}
ParseFloat(text) ==
    CASE text = "16.0" -> Ok(Fl(16))
      [] text = "30.5" -> Ok(Dec(305, -1))
      [] OTHER -> Raise("ValueError")

\* float(self.param_vars['conductor_diameter'].get()) / 2
HalfDiameter(g) ==
    IF ParseFloat(g.conductor_diameter).err # "none"
    THEN ParseFloat(g.conductor_diameter)
    ELSE Ok(FDiv[ParseFloat(g.conductor_diameter).val, Two])

\* defaults of add_layer_simple, for the buttons modelled.
LayerTypes == {"insulation", "sheath", "soil"}
LayerDefaults(layer_type) ==
    CASE layer_type = "insulation" -> [name |-> "Insulation-Schicht", material |-> "XLPE", thickness |-> Fl(8)]
      [] layer_type = "sheath" -> [name |-> "Sheath-Schicht", material |-> "PE-Mantel", thickness |-> Dec(25, -1)]
      [] layer_type = "soil" -> [name |-> "Soil-Schicht", material |-> "Erdreich normal", thickness |-> Fl(500)]

\* load_demo_configuration: the five layers from the conductor radius on.
demo_layers ==
    <<[name |-> "Isolation", material |-> "XLPE", thickness |-> Fl(8)],
      [name |-> "Mantel", material |-> "PE-Mantel", thickness |-> Dec(25, -1)],
      [name |-> "Schutzrohr", material |-> "PE-Rohr", thickness |-> Fl(3)],
      [name |-> "Bettung", material |-> "Sand feucht", thickness |-> Fl(100)],
      [name |-> "Erdreich", material |-> "Erdreich normal", thickness |-> Fl(500)]>>
RECURSIVE load_demo_configuration(_, _)
load_demo_configuration(conductor_radius, k) ==
    IF k = 0 THEN <<>>
    ELSE LET before == load_demo_configuration(conductor_radius, k - 1)
             current_radius == IF k = 1 THEN conductor_radius
                               ELSE before[k - 1].outer_radius_mm
         IN Append(before, GuiLayer(demo_layers[k].name, demo_layers[k].material,
                                    current_radius, demo_layers[k].thickness))

\* The state after __init__: the entry shows 16.0, the demo is loaded.
NewGui ==
    [cable_layers |-> load_demo_configuration(FDiv[Fl(16), Two], Len(demo_layers)),
     conductor_diameter |-> "16.0"]

\* inner_radius of a new layer: the outer radius of the last layer, or half
\* the conductor diameter for an empty list.
InnerRadiusOfNew(g) ==
    IF Len(g.cable_layers) > 0
    THEN Ok(g.cable_layers[Len(g.cable_layers)].outer_radius_mm)
    ELSE HalfDiameter(g)

\* A pass of recalculate_radii that leaves outer_radius_mm as it was.
InnerOnly(layer, current_radius) ==
    [layer EXCEPT !.inner_radius_mm = current_radius]

\* One pass of the loop of recalculate_radii.
Recalculated(layer, current_radius) ==
    [layer EXCEPT !.inner_radius_mm = current_radius,
                  !.outer_radius_mm = FAdd[current_radius, layer.thickness_mm]]

\* recalculate_radii from current_radius on, its first k passes.
RECURSIVE recalculate_radii(_, _, _)
recalculate_radii(layers, conductor_radius, k) ==
    IF k = 0 THEN <<>>
    ELSE LET before == recalculate_radii(layers, conductor_radius, k - 1)
             current_radius == IF k = 1 THEN conductor_radius
                               ELSE before[k - 1].outer_radius_mm
         IN Append(before, Recalculated(layers[k], current_radius))

\* update_schematic reads the diameter when the list is not empty.
update_schematic(g) ==
    IF Len(g.cable_layers) = 0 THEN "none" ELSE HalfDiameter(g).err

\* A handler has run to its end or left with the exception x.
Handled(operation, x) ==
    /\ ret' = Failure(operation, x)
    /\ UNCHANGED <<cable, pc, caller, frame, search, runs, trace, group, heating, materials, analysis, optimizer, ampacity, diary>>

\* add_layer_simple(layer_type), by one of the buttons.
AddLayerSimple ==
    /\ Len(gui.cable_layers) < MaxGuiLayers
    /\ \E layer_type \in LayerTypes :
       \E inner_radius \in {InnerRadiusOfNew(gui)} :
          IF inner_radius.err # "none"
          THEN /\ UNCHANGED gui
               /\ Handled("add_layer_simple", inner_radius.err)
          ELSE \E g \in {[gui EXCEPT !.cable_layers =
                             Append(@, GuiLayer(LayerDefaults(layer_type).name,
                                                LayerDefaults(layer_type).material,
                                                inner_radius.val,
                                                LayerDefaults(layer_type).thickness))]} :
                  /\ gui' = g
                  /\ Handled("add_layer_simple", update_schematic(g))

\* remove_last_layer: pop, then recalculate_radii on what is left.
RemoveLastLayer ==
    /\ IF Len(gui.cable_layers) = 0
       THEN UNCHANGED gui /\ Handled("remove_last_layer", "none")
       ELSE \E rest \in {SubSeq(gui.cable_layers, 1, Len(gui.cable_layers) - 1)} :
               IF Len(rest) > 0 /\ HalfDiameter(gui).err # "none"
               THEN /\ gui' = [gui EXCEPT !.cable_layers = rest]
                    /\ Handled("remove_last_layer", HalfDiameter(gui).err)
               ELSE /\ gui' = [gui EXCEPT !.cable_layers =
                                  recalculate_radii(rest, HalfDiameter(gui).val,
                                                    Len(rest))]
                    /\ Handled("remove_last_layer", "none")

\* clear_layers: nothing on an empty list or when the question is answered
\* with no.
ClearLayers ==
    /\ \E askyesno \in BOOLEAN :
          gui' = IF Len(gui.cable_layers) > 0 /\ askyesno
                 THEN [gui EXCEPT !.cable_layers = <<>>] ELSE gui
    /\ Handled("clear_layers", "none")

\* The user types into the entry of the conductor diameter.
EditDiameter ==
    /\ \E text \in DiameterTexts : gui' = [gui EXCEPT !.conductor_diameter = text]
    /\ UNCHANGED <<cable, pc, caller, frame, search, ret, runs, trace, group, heating, materials, analysis, optimizer, ampacity, diary>>

----------------------------------------------------------------------------
(* mcp_developer_diary.py: MCPDeveloperDiary.  diary holds max_entries,    *)
(* entries, best_standard_entry_id and the second the clock of             *)
(* datetime.now stands at.  Of a DiaryEntry the fields add_entry and       *)
(* _recalculate_best_standard decide on are kept; the texts, metrics and   *)
(* tags of an entry are left out.  The storage file is absent at           *)
(* construction and _save writes what the object holds.                    *)

\* Calls of add_entry on the diary.
MaxDiaryCalls == 4

\* max_entries given to the constructor; 0 switches the trimming off.
Capacities == {0, 2, 3}

\* proposed_standard_score given to add_entry.
Scores == {None, Fl(5), Fl(9)}

\* The diary before its construction.
NoDiary == [phase |-> "none"]

\* f"{timestamp.strftime('%Y%m%d%H%M%S')}-{len(self.entries) + 1:04d}": the
\* text is one for two calls exactly when the second of the clock and the
\* number are.
EntryId(timestamp, number) == [stamp |-> timestamp, number |-> number]

\* DiaryEntry(...) as add_entry builds it.
DiaryEntry(entry_id, proposed_standard_score) ==
    [entry_id |-> entry_id, proposed_standard_score |-> proposed_standard_score,
     supersedes |-> None, superseded_by |-> None,
     is_current_best_standard |-> FALSE]

\* _find_entry: the place of the first entry with the id, 0 for None.
FindIndex(entries, entry_id) ==
    IF \E k \in 1..Len(entries) : entries[k].entry_id = entry_id
    THEN CHOOSE k \in 1..Len(entries) :
            /\ entries[k].entry_id = entry_id
            /\ \A j \in 1..(k - 1) : entries[j].entry_id # entry_id
    ELSE 0
find_entry(entries, entry_id) ==
    IF FindIndex(entries, entry_id) = 0 THEN None
    ELSE entries[FindIndex(entries, entry_id)]

\* _current_best_score
current_best_score(d) ==
    IF d.best_standard_entry_id = None THEN None
    ELSE IF find_entry(d.entries, d.best_standard_entry_id) = None THEN None
    ELSE find_entry(d.entries, d.best_standard_entry_id).proposed_standard_score

\* The loop of _recalculate_best_standard from entry k on: best_score and
\* best_entry_id after the last entry.
RECURSIVE BestScan(_, _, _, _)
BestScan(entries, k, best_score, best_entry_id) ==
    IF k > Len(entries) THEN [best_score |-> best_score, best_entry_id |-> best_entry_id]
    ELSE IF entries[k].proposed_standard_score = None
    THEN BestScan(entries, k + 1, best_score, best_entry_id)
    ELSE IF best_score = None \/ FGt(entries[k].proposed_standard_score, best_score)
    THEN BestScan(entries, k + 1, entries[k].proposed_standard_score, entries[k].entry_id)
    ELSE BestScan(entries, k + 1, best_score, best_entry_id)

\* _recalculate_best_standard: every flag cleared, the first entry with the
\* id of the greatest score flagged, the pointer set to that id.
Unflagged(entries) ==
    [k \in 1..Len(entries) |-> [entries[k] EXCEPT !.is_current_best_standard = FALSE]]
recalculate_best_standard(d) ==
    LET best_entry_id == BestScan(d.entries, 1, None, None).best_entry_id
        cleared == Unflagged(d.entries)
    IN  [d EXCEPT
           !.entries = IF best_entry_id # None /\ FindIndex(cleared, best_entry_id) # 0
                       THEN [cleared EXCEPT ![FindIndex(cleared, best_entry_id)].is_current_best_standard = TRUE]
                       ELSE cleared,
           !.best_standard_entry_id = best_entry_id]

\* if new_score is not None and (current_best_score is None or
\*     new_score > current_best_score)
Replaces(d, new_score) ==
    /\ new_score # None
    /\ \/ current_best_score(d) = None
       \/ FGt(new_score, current_best_score(d))

\* add_entry up to self.entries.append(entry).
Appended(d, timestamp, new_score) ==
    LET entry_id == EntryId(timestamp, Len(d.entries) + 1)
        entry == DiaryEntry(entry_id, new_score)
        previous == IF d.best_standard_entry_id = None THEN 0
                    ELSE FindIndex(d.entries, d.best_standard_entry_id)
    IN  IF ~Replaces(d, new_score)
        THEN [d EXCEPT !.entries = Append(@, entry)]
        ELSE [d EXCEPT
                !.entries =
                    Append(IF previous = 0 THEN @
                           ELSE [@ EXCEPT ![previous].is_current_best_standard = FALSE,
                                          ![previous].superseded_by = entry_id],
                           [entry EXCEPT
                              !.supersedes = IF previous = 0 THEN None
                                             ELSE d.entries[previous].entry_id,
                              !.is_current_best_standard = TRUE]),
                !.best_standard_entry_id = entry_id]

\* self.entries[-self.max_entries:]
LastEntries(entries, n) == SubSeq(entries, Len(entries) - n + 1, Len(entries))

\* add_entry from the append on: the trimming with the recalculation.
Trimmed(d) ==
    IF d.max_entries # 0 /\ Len(d.entries) > d.max_entries
    THEN recalculate_best_standard([d EXCEPT !.entries = LastEntries(@, d.max_entries)])
    ELSE d

\* add_entry at the second timestamp of the clock.
add_entry(d, timestamp, new_score) ==
    [Trimmed(Appended(d, timestamp, new_score)) EXCEPT
        !.clock = timestamp, !.calls = d.calls + 1]

\* MCPDeveloperDiary(storage_path, max_entries) with no file at the path.
NewDiary ==
    /\ diary = NoDiary
    /\ \E max_entries \in Capacities :
          diary' = [phase |-> "open", max_entries |-> max_entries, entries |-> <<>>,
                    best_standard_entry_id |-> None, clock |-> 0, calls |-> 0]
    /\ UNCHANGED <<cable, pc, caller, frame, search, ret, runs, trace, group, heating, materials, analysis, optimizer, ampacity, gui>>

\* A call of add_entry, in the second of the call before it or in the next.
AddEntry ==
    /\ diary.phase = "open"
    /\ diary.calls < MaxDiaryCalls
    /\ \E timestamp \in {diary.clock, diary.clock + 1}, new_score \in Scores :
          diary' = add_entry(diary, timestamp, new_score)
    /\ UNCHANGED <<cable, pc, caller, frame, search, ret, runs, trace, group, heating, materials, analysis, optimizer, ampacity, gui>>

----------------------------------------------------------------------------
(* Specifications.                                                         *)

InitCable(cs, as) ==
    /\ cable \in {[c EXCEPT !.ambient_temp = a] : c \in cs, a \in as}
    /\ pc = "idle"
    /\ caller = "none"
    /\ frame = NoFrame
    /\ search = NoSearch
    /\ ret = NoRet
    /\ runs = <<>>
    /\ trace = <<>>
    /\ group = NoGroup
    /\ heating = NoHeating
    /\ materials = MATERIALS
    /\ diary = NoDiary
    /\ gui = NewGui
    /\ ampacity = NoAmpacity
    /\ optimizer = NoOptimizer
    /\ analysis = NoAnalysis

\* The temperature solver, called at the currents the user sets.
Init == InitCable(Cables, Ambients)
Next ==
    \/ SetCurrent
    \/ TemperatureCall
    \/ TemperatureIter
    \/ TemperatureReturn
Spec == Init /\ [][Next]_vars

\* The ampacity search, and the solver at the current it leaves.
AmpacityCables ==
    {[c EXCEPT !.ambient_temp = a] :
        c \in {create_mv_cable_240mm2_xlpe, CopperPVC, ResistanceWire},
        a \in Ambients \cup {Fl(95)}}
InitAmpacity ==
    /\ cable \in AmpacityCables
    /\ pc = "idle"
    /\ caller = "none"
    /\ frame = NoFrame
    /\ search = NoSearch
    /\ ret = NoRet
    /\ runs = <<>>
    /\ trace = <<>>
    /\ group = NoGroup
    /\ heating = NoHeating
    /\ materials = MATERIALS
    /\ diary = NoDiary
    /\ gui = NewGui
    /\ ampacity = NoAmpacity
    /\ optimizer = NoOptimizer
    /\ analysis = NoAnalysis
NextAmpacity ==
    \/ MaxCurrentCall
    \/ MaxCurrentProbe
    \/ MaxCurrentReturn
    \/ TemperatureCall
    \/ TemperatureIter
    \/ TemperatureReturn
SpecAmpacity == InitAmpacity /\ [][NextAmpacity]_vars

\* CableLayer.get_thermal_resistance on single layers, sound and unsound.
Radii == {Fl(-1), Zero, One, Two, Fl(5), Dec(171, -1)}
Conductivities == {Fl(-1), Zero, Dec(2, -1), One, Fl(380)}
InitLayer ==
    InitCable({add_layer(NewCable, Layer("Layer", ri, ro, lam, Zero, Zero)) :
                  ri \in Radii, ro \in Radii, lam \in Conductivities},
              {Fl(20)})
NextLayer == ThermalResistanceCall
SpecLayer == InitLayer /\ [][NextLayer]_vars

\* The temperature profile.
InitProfile == InitCable(ProfileCables, Ambients)
NextProfile ==
    \/ SetCurrent
    \/ ProfileCall
    \/ TemperatureIter
    \/ ProfileReturn
SpecProfile == InitProfile /\ [][NextProfile]_vars

\* The enhanced configurations: the in-air medium-voltage cable in still and
\* in moving air, with one of convection and radiation, with neither, and
\* the same layers buried, and three of the in-air cables side by side.
InAirCables ==
    {create_enhanced_mv_cable_in_air(0, a, v) : a \in Ambients, v \in {Zero, One}}
ConvectionOnly == [create_enhanced_mv_cable_in_air(0, Fl(20), Zero) EXCEPT !.radiation_params = None]
RadiationOnly == [create_enhanced_mv_cable_in_air(0, Fl(20), Zero) EXCEPT !.convection_params = None]
BareInAir ==
    [create_enhanced_mv_cable_in_air(0, Fl(20), Zero) EXCEPT
        !.convection_params = None, !.radiation_params = None]
Buried == [NewEnhanced EXCEPT !.layers = EnhancedMVLayers]
Trefoil == [create_enhanced_mv_cable_in_air(0, Fl(20), One) EXCEPT !.num_cables = 3]
EnhancedCables ==
    InAirCables \cup {ConvectionOnly, RadiationOnly, BareInAir, Buried, Trefoil}

\* The enhanced solver and the enhanced thermal resistance.
InitEnhanced ==
    /\ cable \in EnhancedCables
    /\ pc = "idle"
    /\ caller = "none"
    /\ frame = NoFrame
    /\ search = NoSearch
    /\ ret = NoRet
    /\ runs = <<>>
    /\ trace = <<>>
    /\ group = NoGroup
    /\ heating = NoHeating
    /\ materials = MATERIALS
    /\ diary = NoDiary
    /\ gui = NewGui
    /\ ampacity = NoAmpacity
    /\ optimizer = NoOptimizer
    /\ analysis = NoAnalysis
NextEnhanced ==
    \/ SetCurrent
    \/ EnhancedCall
    \/ EnhancedIter
    \/ EnhancedReturn
    \/ EnhancedResistanceCall
SpecEnhanced == InitEnhanced /\ [][NextEnhanced]_vars

\* Both solvers, on sound configurations and on ones with no layer, an
\* insulation of conductivity 0, a conductor of resistivity 0.
ZeroConductivity == TwoLayerCable(Dec(175, -4), Dec(393, -5), Zero)
ZeroResistivity ==
    [create_enhanced_mv_cable_in_air(0, Fl(20), Zero) EXCEPT !.layers[1].resistivity = Zero]
SolverCables ==
    {create_mv_cable_240mm2_xlpe, CopperPVC, ZeroConductivity, NewCable,
     create_enhanced_mv_cable_in_air(0, Fl(20), Zero), Buried, ZeroResistivity,
     NewEnhanced}
InitSolvers ==
    /\ cable \in SolverCables
    /\ pc = "idle"
    /\ caller = "none"
    /\ frame = NoFrame
    /\ search = NoSearch
    /\ ret = NoRet
    /\ runs = <<>>
    /\ trace = <<>>
    /\ group = NoGroup
    /\ heating = NoHeating
    /\ materials = MATERIALS
    /\ diary = NoDiary
    /\ gui = NewGui
    /\ ampacity = NoAmpacity
    /\ optimizer = NoOptimizer
    /\ analysis = NoAnalysis
NextSolvers ==
    \/ SetCurrent
    \/ TemperatureCall
    \/ TemperatureIter
    \/ TemperatureReturn
    \/ EnhancedCall
    \/ EnhancedIter
    \/ EnhancedReturn
SpecSolvers == InitSolvers /\ [][NextSolvers]_vars

\* A configuration built layer by layer; get_total_thermal_resistance.
InitBuild == InitCable({NewCable}, {Fl(20)})
NextBuild ==
    \/ AddLayerCall
    \/ TotalResistanceCall
SpecBuild == InitBuild /\ [][NextBuild]_vars

\* calculate_conductor_temperatures_with_mutual_heating on rows of equal
\* cables: validate_mutual_heating's three cables at 400 A, 0.5 m apart in
\* 1 m depth, and its neighbours.
RECURSIVE Row(_, _, _)
Row(n, spacing, i) ==
    IF n = 0 THEN NoGroup
    ELSE add_cable(Row(n - 1, spacing, i), FMul[Fl(n - 1), spacing], One,
                   [create_mv_cable_240mm2_xlpe EXCEPT !.current = i], One)
InitGroup ==
    /\ group \in {Row(n, spacing, i) :
                    n \in 0..MaxCables, spacing \in RowSpacings, i \in RowCurrents}
    /\ cable = NewCable
    /\ pc = "idle"
    /\ caller = "none"
    /\ frame = NoFrame
    /\ search = NoSearch
    /\ ret = NoRet
    /\ runs = <<>>
    /\ trace = <<>>
    /\ heating = NoHeating
    /\ materials = MATERIALS
    /\ diary = NoDiary
    /\ gui = NewGui
    /\ ampacity = NoAmpacity
    /\ optimizer = NoOptimizer
    /\ analysis = NoAnalysis
NextGroup ==
    \/ MutualHeatingCall
    \/ TemperatureIter
    \/ MutualHeatingInitial
    \/ MutualHeatingSweep
    \/ MutualHeatingReturn
SpecGroup == InitGroup /\ [][NextGroup]_vars

\* The calculator, on the database with the custom materials added so far.
InitCalculator == InitCable({NewCable}, {Fl(20)})
NextCalculator ==
    \/ AddCustomMaterial
    \/ HeatFlowCall
    \/ UValueCall
    \/ TemperatureDistributionCall
SpecCalculator == InitCalculator /\ [][NextCalculator]_vars

\* analyze_grouping_factor on the medium-voltage cable at the currents of the
\* rows, for one to three cables.
InitAnalyzer ==
    InitCable({[create_mv_cable_240mm2_xlpe EXCEPT !.current = i] : i \in RowCurrents},
              {Fl(20)})
NextAnalyzer ==
    \/ GroupingFactorCall
    \/ GroupingFactorAmpacity
    \/ GroupingFactorMulti
    \/ GroupingFactorReturn
    \/ TemperatureIter
    \/ MutualHeatingInitial
    \/ MutualHeatingSweep
    \/ MutualHeatingReturn
    \/ MaxCurrentProbe
    \/ MaxCurrentReturn
SpecAnalyzer == InitAnalyzer /\ [][NextAnalyzer]_vars

\* optimize_cable_spacing on the rows of equal cables 0.5 m apart, idle and
\* at 400 A.
InitOptimizer ==
    /\ group \in {Row(n, Dec(5, -1), i) : n \in 0..MaxCables, i \in {0, Amps(400)}}
    /\ cable = NewCable
    /\ pc = "idle"
    /\ caller = "none"
    /\ frame = NoFrame
    /\ search = NoSearch
    /\ ret = NoRet
    /\ runs = <<>>
    /\ trace = <<>>
    /\ heating = NoHeating
    /\ materials = MATERIALS
    /\ diary = NoDiary
    /\ gui = NewGui
    /\ ampacity = NoAmpacity
    /\ analysis = NoAnalysis
    /\ optimizer = NoOptimizer
NextOptimizer ==
    \/ OptimizeCall
    \/ OptimizeStep
    \/ TemperatureIter
    \/ MutualHeatingInitial
    \/ MutualHeatingSweep
    \/ MutualHeatingReturn
SpecOptimizer == InitOptimizer /\ [][NextOptimizer]_vars

\* calculate_cable_ampacity.  The call runs on the calling thread without a
\* suspension point: a loop that is entered takes its next step, a pass
\* that moves one end of the bracket to I_test or the return.
LoopStep ==
    /\ ampacity.phase = "loop"
    /\ ampacity' \in
          {[ampacity EXCEPT !.phase = "done"]} \cup
          {[ampacity EXCEPT !.passes = @ + 1, !.I_min = i, !.I_max = j] :
              i \in {ampacity.I_min, I_test(ampacity)},
              j \in {ampacity.I_max, I_test(ampacity)}}
InitHeat == InitCable({NewCable}, {Fl(20)})
NextHeat ==
    \/ AmpacityCall
    \/ AmpacityPass
    \/ AmpacityReturn
SpecHeat == InitHeat /\ [][NextHeat]_vars /\ WF_ampacity(LoopStep)

\* The layer list of the GUI under its buttons and the diameter entry.
InitGui == InitCable({NewCable}, {Fl(20)})
NextGui ==
    \/ AddLayerSimple
    \/ RemoveLastLayer
    \/ ClearLayers
    \/ EditDiameter
SpecGui == InitGui /\ [][NextGui]_vars

\* The diary under its constructor and add_entry.
InitDiary == InitCable({NewCable}, {Fl(20)})
NextDiary ==
    \/ NewDiary
    \/ AddEntry
SpecDiary == InitDiary /\ [][NextDiary]_vars

----------------------------------------------------------------------------
(* Properties of calculate_conductor_temperature.                          *)

LastRun == runs[Len(runs)]
Returned(operation) ==
    /\ pc = "idle"
    /\ Len(runs) > 0
    /\ LastRun.ret.op = operation
    /\ LastRun.ret.err = "none"

\* |ambient_temp + I^2 * R(T) * R_th - T| for the configuration c at current i.
Residual(c, i, t) ==
    FAbs[FSub[FAdd[c.ambient_temp,
                   FMul[calculate_conductor_losses([c EXCEPT !.current = i], t).val,
                        get_total_thermal_resistance(c).val]],
              t]]

\* C1: a call of calculate_conductor_temperature that reports fewer than 10
\* iterations returns a temperature T with
\* |ambient_temp + I^2 * R(T) * R_th - T| < 0.1 K.
C1_ResidualBelowTolerance ==
    (Returned("calculate_conductor_temperature")
        /\ LastRun.ret.details.iterations < MaxIterations)
    => FLt(Residual(cable, LastRun.current, LastRun.ret.value), ConvergenceTol)

\* A call at a positive current has returned after 3 to 9 passes.
C1_Witness ==
    /\ Returned("calculate_conductor_temperature")
    /\ LastRun.current > 0
    /\ LastRun.ret.details.iterations \in 3..(MaxIterations - 1)

\* C5: on one configuration, of two calls of calculate_conductor_temperature
\* the one at the larger current never returns the smaller temperature.
C5_MonotoneInCurrent ==
    \A j, k \in 1..Len(runs) :
        (/\ runs[j].ret.op = "calculate_conductor_temperature"
         /\ runs[k].ret.op = "calculate_conductor_temperature"
         /\ runs[j].ret.err = "none"
         /\ runs[k].ret.err = "none"
         /\ runs[j].current < runs[k].current)
        => FLe(runs[j].ret.value, runs[k].ret.value)

----------------------------------------------------------------------------
(* Properties of calculate_temperature_profile.                            *)

\* C6: with layers of positive conductivity and positive conductor losses,
\* the temperatures of the profile, in list order, never increase.
C6_ProfileNonIncreasing ==
    (Returned("calculate_temperature_profile") /\ FGt(LastRun.ret.losses, Zero))
    => \A k \in 1..(Len(LastRun.ret.value) - 1) :
          FGe(LastRun.ret.value[k].temp, LastRun.ret.value[k + 1].temp)

\* A profile at positive losses with a drop over one layer and a layer of
\* zero thickness.
C6_Witness ==
    /\ Returned("calculate_temperature_profile")
    /\ FGt(LastRun.ret.losses, Zero)
    /\ \E k \in 1..(Len(LastRun.ret.value) - 1) :
          FGt(LastRun.ret.value[k].temp, LastRun.ret.value[k + 1].temp)
    /\ \E k \in 1..Len(LastRun.ret.value) : LastRun.ret.value[k].name = "Tape"

----------------------------------------------------------------------------
(* Properties of calculate_max_current.                                    *)

\* The last call ran the solver at the current the ampacity search, the call
\* before it, had returned.
FedBack ==
    /\ Returned("calculate_conductor_temperature")
    /\ Len(runs) >= 2
    /\ runs[Len(runs) - 1].ret.op = "calculate_max_current"
    /\ runs[Len(runs) - 1].ret.err = "none"
    /\ LastRun.current = runs[Len(runs) - 1].ret.value

WithinSearchTol ==
    FLt(FAbs[FSub[LastRun.ret.value, cable.max_conductor_temp]], SearchTol)

\* C3, as the code has it: with ambient_temp below max_conductor_temp, when
\* the search left its loop on the 0.5 K test within its 20 probes, the
\* solver run at the returned current yields a temperature within 0.5 K of
\* max_conductor_temp.
C3_FedBackWithinTolerance ==
    (FedBack /\ FLt(cable.ambient_temp, cable.max_conductor_temp) /\ search.met)
    => WithinSearchTol

\* The search met the target after six or more probes, at a temperature
\* that is not max_conductor_temp itself, and the solver was run again.
C3_Witness ==
    /\ FedBack
    /\ FLt(cable.ambient_temp, cable.max_conductor_temp)
    /\ search.met
    /\ search.k >= 5
    /\ LastRun.ret.value # cable.max_conductor_temp

\* C3 as stated: with ambient_temp below max_conductor_temp and the ampacity
\* below 10000 A (some probe was too hot), the solver run at the returned
\* current yields a temperature within 0.5 K of max_conductor_temp.
C3_AsStated ==
    (FedBack /\ FLt(cable.ambient_temp, cable.max_conductor_temp)
        /\ search.i_max < UpperCurrent)
    => WithinSearchTol

\* C4: with ambient_temp above max_conductor_temp, calculate_max_current
\* ends in an error, not in a returned current.
C4_FailsWhenAmbientAboveMax ==
    (/\ pc = "idle"
     /\ Len(runs) > 0
     /\ LastRun.ret.op = "calculate_max_current"
     /\ FGt(cable.ambient_temp, cable.max_conductor_temp))
    => LastRun.ret.err # "none"

\* The details of a solver run, as calculate_max_current returns them.
SolverDetails(d) ==
    [conductor_temp_C |-> d.conductor_temp_C,
     ambient_temp_C |-> d.ambient_temp_C,
     losses_W_per_m |-> d.losses_W_per_m,
     thermal_resistance_K_m_W |-> d.thermal_resistance_K_m_W,
     current_A |-> d.current_A,
     iterations |-> d.iterations,
     max_allowed_temp_C |-> d.max_allowed_temp_C]

\* C13: calculate_max_current returns the last current it probed; on return
\* the configuration's current is that value, details.current_A and
\* details.max_current_A are that value, and the other details are those of
\* the solver's run at that current: the solver called next on the
\* configuration returns the same details.
C13_ReturnsLastProbe ==
    /\ Returned("calculate_max_current")
       => /\ LastRun.ret.value = search.i_test
          /\ cable.current = LastRun.ret.value
          /\ LastRun.ret.details.current_A = LastRun.ret.value
          /\ LastRun.ret.details.max_current_A = LastRun.ret.value
          /\ LastRun.ret.details.conductor_temp_C = frame.t_conductor
    /\ FedBack
       => /\ cable.current = runs[Len(runs) - 1].ret.value
          /\ LastRun.ret.details = SolverDetails(runs[Len(runs) - 1].ret.details)

\* The search has returned after six or more probes a current that is not
\* an end of its bracket, and the solver was run again at it.
C13_Witness ==
    /\ FedBack
    /\ search.k >= 5
    /\ runs[Len(runs) - 1].ret.value = search.i_test
    /\ runs[Len(runs) - 1].ret.value # search.i_min
    /\ runs[Len(runs) - 1].ret.value # search.i_max
    /\ runs[Len(runs) - 1].ret.details.iterations > 1

----------------------------------------------------------------------------
(* Properties of CableLayer.get_thermal_resistance.                        *)

\* C7: for a layer with outer_radius <= inner_radius or
\* thermal_conductivity <= 0, get_thermal_resistance ends in an error; it
\* returns no value, zero and negative values included.
C7_UnsoundLayerRaises ==
    (/\ Len(runs) > 0
     /\ LastRun.ret.op = "get_thermal_resistance"
     /\ \/ FLe(cable.layers[1].outer_radius, cable.layers[1].inner_radius)
        \/ FLe(cable.layers[1].thermal_conductivity, Zero))
    => LastRun.ret.err # "none"

----------------------------------------------------------------------------
(* Properties of the enhanced model.                                       *)

\* a and b agree to five digits.
Close(a, b) == FLe(FAbs[FSub[a, b]], FMul[Dec(1, -5), FAbs[b]])

\* The passes of a call of calculate_conductor_temperature_enhanced.
EnhancedPasses == IF caller = "calculate_conductor_temperature_enhanced"
                     \/ (pc = "idle" /\ Len(runs) > 0
                         /\ LastRun.ret.op = "calculate_conductor_temperature_enhanced")
                  THEN 1..Len(trace) ELSE {}

\* C8: in every pass of calculate_conductor_temperature_enhanced the
\* conductor resistance behind the losses is the per-metre resistance at the
\* candidate temperature T, get_electrical_resistance(length=1,
\* temperature=T) = R_20 * (1 + alpha * (T - 20)).
C8_ResistanceAtCandidate ==
    \A k \in EnhancedPasses :
        Close(trace[k].r_dc, get_electrical_resistance(cable.layers[1], One, trace[k].t))

\* C9: in a call of calculate_conductor_temperature_enhanced on an in-air
\* installation with convection or radiation parameters, the thermal
\* resistance used in a pass follows the candidate temperature: two
\* successive passes at different candidates use different resistances.
C9_ResistanceFollowsCandidate ==
    (InAir(cable) /\ (~cable.convection_params.is_none \/ ~cable.radiation_params.is_none))
    => \A k \in EnhancedPasses :
          (k > 1 /\ trace[k].t # trace[k - 1].t)
          => \/ trace[k].surface_temp # trace[k - 1].surface_temp
             \/ trace[k].r_thermal # trace[k - 1].r_thermal

\* A call of calculate_enhanced_thermal_resistance has returned for an
\* in-air installation.
ReturnedInAir ==
    /\ Returned("calculate_enhanced_thermal_resistance")
    /\ InAir(cable)

\* r_total with the division by the two installation factors undone, less
\* the conductive resistance.
ExternalShare(th) ==
    FSub[FMul[th.r_total, FMul[th.grouping_factor, th.installation_factor]],
         th.r_conduction]

\* C10, as the code has it: for an in-air installation r_total is the
\* conductive resistance of the layers plus the external share, divided by
\* grouping_factor * installation_factor (1.2 in air); the external share R
\* is the parallel combination, R * (R_conv + R_rad) = R_conv * R_rad, with
\* both parameter sets, and the one resistance present with one.
C10_SeriesParallelOverFactors ==
    ReturnedInAir =>
        LET th == LastRun.ret.thermal
            rc == th.r_convection
            rr == th.r_radiation
        IN /\ th.r_conduction = SumResistance(cable.layers, Len(cable.layers), Ok(Zero)).val
           /\ th.installation_factor = Dec(12, -1)
           /\ (FGt(rc, Zero) /\ FGt(rr, Zero))
                 => Close(FMul[ExternalShare(th), FAdd[rc, rr]], FMul[rc, rr])
           /\ (FGt(rc, Zero) /\ IsZero(rr)) => Close(ExternalShare(th), rc)
           /\ (IsZero(rc) /\ FGt(rr, Zero)) => Close(ExternalShare(th), rr)

\* The call has returned for an in-air installation of three cables with
\* both parameter sets, both film resistances positive.
C10_Witness ==
    /\ ReturnedInAir
    /\ ~cable.convection_params.is_none
    /\ ~cable.radiation_params.is_none
    /\ cable.num_cables = 3
    /\ FGt(LastRun.ret.thermal.r_convection, Zero)
    /\ FGt(LastRun.ret.thermal.r_radiation, Zero)
    /\ FLt(LastRun.ret.thermal.grouping_factor, One)

\* C10 as stated: for an in-air installation with both parameter sets,
\* r_total is the conductive resistance plus the parallel combination of
\* R_conv and R_rad.
C10_AsStated ==
    (ReturnedInAir /\ ~cable.convection_params.is_none
        /\ ~cable.radiation_params.is_none)
    => LET th == LastRun.ret.thermal
       IN Close(FMul[FSub[th.r_total, th.r_conduction],
                     FAdd[th.r_convection, th.r_radiation]],
                FMul[th.r_convection, th.r_radiation])

----------------------------------------------------------------------------
(* Properties of the two fixed-point solvers.                              *)

BaseSolver == "calculate_conductor_temperature"
EnhancedSolver == "calculate_conductor_temperature_enhanced"
Budget(operation) == IF operation = BaseSolver THEN MaxIterations ELSE EnhancedIterations

\* The solver in progress, or the one of the last completed call.
SolverAtWork ==
    IF caller \in {BaseSolver, EnhancedSolver} THEN caller
    ELSE IF pc = "idle" /\ Len(runs) > 0 THEN LastRun.ret.op
    ELSE "none"

\* Some layer of sound geometry has conductivity 0: 1.0 / 0.0 raises.
ZeroLambda(layers) ==
    \E k \in 1..Len(layers) :
        /\ FGt(layers[k].inner_radius, Zero)
        /\ FGt(layers[k].outer_radius, layers[k].inner_radius)
        /\ IsZero(layers[k].thermal_conductivity)

\* The configurations on which the solver raises, read off the
\* configuration alone (radii not negative, air properties positive).
Raises(c, operation) ==
    IF operation = BaseSolver
    THEN \/ IsEnhanced(c)
         \/ Len(c.layers) = 0
         \/ ZeroLambda(c.layers)
         \/ ZeroLambda(c.external_layers)
    ELSE \/ Len(c.layers) = 0
         \/ FGe(c.frequency, Dec(1, -1)) /\ FLe(c.layers[1].resistivity, Zero)
         \/ ZeroLambda(c.layers)
         \/ ZeroLambda(c.external_layers)
         \/ IsZero(c.layers[Len(c.layers)].outer_radius)
         \/ IsZero(c.layers[1].outer_radius)
                /\ (c.num_cables > 1 \/ (c.has_shield /\ FGt(c.shield_radius, Zero)))
         \/ ~InAir(c) /\ FLe(c.burial_depth, Zero)

\* The last pass of the call left the tolerance unmet.
LastPassUnmet ==
    LET p == trace[Len(trace)]
    IN IF SolverAtWork = BaseSolver THEN ~Converged(p.t_new, p.t)
       ELSE ~FLt(FAbs[FSub[p.t_new, p.t]], EnhancedTol)

\* The last iterate: t_new of the last pass, damped in the enhanced solver.
LastIterate ==
    LET p == trace[Len(trace)]
    IN IF SolverAtWork = BaseSolver THEN p.t_new ELSE Damped(p.t_new, p.t)

ReturnedTemperature ==
    IF LastRun.ret.op = BaseSolver THEN LastRun.ret.value
    ELSE LastRun.ret.conductor_temperature

ReportedCount(r) ==
    IF r.op = BaseSolver THEN r.details.iterations ELSE r.iterations

BaseBudgetExhausted ==
    /\ Returned(BaseSolver)
    /\ Len(trace) = MaxIterations
    /\ LastPassUnmet

----------------------------------------------------------------------------
(* Properties of get_total_thermal_resistance.                             *)

\* 0.0, then the resistances of the first k layers of seq added one by one.
RECURSIVE SeriesSum(_, _)
SeriesSum(seq, k) ==
    IF k = 0 THEN Zero
    ELSE FAdd[SeriesSum(seq, k - 1), get_thermal_resistance(seq[k]).val]

\* C11: get_total_thermal_resistance returns the sum of
\* get_thermal_resistance over the internal layers and then the external
\* layers, in sequence order, and nothing else.
C11_TotalIsSeriesSum ==
    \A k \in 1..Len(runs) :
        (runs[k].ret.op = "get_total_thermal_resistance" /\ runs[k].ret.err = "none")
        => runs[k].ret.value
              = SeriesSum(runs[k].config.layers \o runs[k].config.external_layers,
                          Len(runs[k].config.layers)
                             + Len(runs[k].config.external_layers))

\* The call has returned a positive total for a configuration with two
\* internal layers of different resistance and an external one.
C11_Witness ==
    /\ Returned("get_total_thermal_resistance")
    /\ LastRun.config = cable
    /\ Len(cable.layers) = 2
    /\ Len(cable.external_layers) = 1
    /\ cable.layers[1] # cable.layers[2]
    /\ FGt(get_thermal_resistance(cable.layers[2]).val, Zero)
    /\ FGt(get_thermal_resistance(cable.external_layers[1]).val, Zero)
    /\ FGt(LastRun.ret.value, Zero)

----------------------------------------------------------------------------
(* Properties of repeated calls of calculate_conductor_temperature.        *)

SolverRun(k) ==
    /\ runs[k].ret.op = "calculate_conductor_temperature"
    /\ runs[k].ret.err = "none"

\* C12: two calls of calculate_conductor_temperature in succession on the
\* same configuration return the same temperature and the same details, and
\* no step of a call changes the configuration (layers, external layers,
\* current, ambient_temp, max_conductor_temp).
C12_RepeatableAndPure ==
    /\ [](\A k \in 1..(Len(runs) - 1) :
            (SolverRun(k) /\ SolverRun(k + 1) /\ runs[k].current = runs[k + 1].current)
            => runs[k].ret = runs[k + 1].ret)
    /\ [][(caller = "calculate_conductor_temperature"
           \/ caller' = "calculate_conductor_temperature") => cable' = cable]_vars

\* Two calls at 400 A have returned, each after more than one pass.
C12_Witness ==
    /\ Len(runs) = 2
    /\ SolverRun(1)
    /\ Returned("calculate_conductor_temperature")
    /\ runs[1].current = Amps(400)
    /\ cable.current = Amps(400)
    /\ LastRun.current = Amps(400)
    /\ LastRun.ret.details.iterations > 1
    /\ FGt(LastRun.ret.value, cable.ambient_temp)

----------------------------------------------------------------------------
(* Properties of calculate_conductor_temperatures_with_mutual_heating.     *)

ReturnedTriples == Returned(MutualOp) /\ Len(ret.value) = Len(group.cables)

\* C14: every returned triple (i, conductor_temp, mutual) has
\* conductor_temp = T_standalone + mutual, T_standalone the temperature of
\* the cable's own solver and mutual the sum of losses_j * R_mutual[i, j]
\* over the other cables, from the final losses (to 5 digits).
C14_TemperatureIsStandalonePlusMutual ==
    ReturnedTriples
    => \A k \in 1..Len(ret.value) :
          Close(ret.value[k].conductor_temp,
                FAdd[heating.temp_without_mutual[k], ret.value[k].mutual_heating])

\* Three equal cables in a row in one depth, the spacing equal and positive
\* and below twice the depth, all with the current i > 0.
EqualRow ==
    /\ Len(group.cables) = 3
    /\ group.cables[1].cable_config = group.cables[2].cable_config
    /\ group.cables[2].cable_config = group.cables[3].cable_config
    /\ group.cables[1].cable_config.current > 0
    /\ group.cables[1].y = group.cables[2].y
    /\ group.cables[2].y = group.cables[3].y
    /\ group.cables[1].load_factor = group.cables[2].load_factor
    /\ group.cables[2].load_factor = group.cables[3].load_factor
    /\ FSub[group.cables[2].x, group.cables[1].x]
          = FSub[group.cables[3].x, group.cables[2].x]
    /\ FGt(FSub[group.cables[2].x, group.cables[1].x], Zero)
    /\ FLt(FSub[group.cables[2].x, group.cables[1].x],
           FMul[Two, group.cables[1].y])

\* C15: of three identical cables with one current in a horizontal row in
\* one depth, the spacing below twice the depth, the middle cable's returned
\* temperature is above that of each outer cable.  Checked for positive
\* currents.
C15_MiddleCableHottest ==
    (ReturnedTriples /\ EqualRow)
    => /\ FGt(ret.value[2].conductor_temp, ret.value[1].conductor_temp)
       /\ FGt(ret.value[2].conductor_temp, ret.value[3].conductor_temp)

----------------------------------------------------------------------------
(* Properties of ThermalCalculator.                                        *)

CallOf(k, operation) == runs[k].ret.op = operation

\* The material of a call or layer is a key of the database of run k.
Known(k, material) == material.is_str /\ material.text \in DOMAIN runs[k].materials

\* C16: calculate_heat_flow raises ValueError for an empty, non-string or
\* unknown material name, an area <= 0, a thickness <= 0 and a stored
\* conductivity <= 0; calculate_u_value raises ValueError for an empty layer
\* list and for a layer list with an unknown material.
C16_InvalidInputsRaiseValueError ==
    \A k \in 1..Len(runs) :
        /\ (/\ CallOf(k, "calculate_heat_flow")
            /\ \/ ~Known(k, runs[k].args.material)
               \/ FLe(runs[k].args.area, Zero)
               \/ FLe(runs[k].args.thickness, Zero)
               \/ FLe(runs[k].materials[runs[k].args.material.text], Zero))
           => runs[k].ret.err = "ValueError"
        /\ (/\ CallOf(k, "calculate_u_value")
            /\ \/ Len(runs[k].args.layers) = 0
               \/ \E j \in 1..Len(runs[k].args.layers) :
                     ~Known(k, runs[k].args.layers[j].material))
           => runs[k].ret.err = "ValueError"

\* C17: calculate_u_value raises an error for a layer list with a layer of
\* zero or negative thickness.
C17_NonPositiveThicknessRaises ==
    \A k \in 1..Len(runs) :
        (/\ CallOf(k, "calculate_u_value")
         /\ \E j \in 1..Len(runs[k].args.layers) :
               FLe(runs[k].args.layers[j].thickness, Zero))
        => runs[k].ret.err # "none"

\* C18: for temp_inside >= temp_outside the temperatures returned by
\* calculate_temperature_distribution start at temp_inside, end at
\* temp_outside, never increase and all lie between the two.
C18_TemperaturesFallWithinRange ==
    \A k \in 1..Len(runs) :
        (/\ CallOf(k, "calculate_temperature_distribution")
         /\ runs[k].ret.err = "none"
         /\ FGe(runs[k].args.temp_inside, runs[k].args.temp_outside))
        => LET T == runs[k].ret.temperatures_C
           IN /\ T[1] = runs[k].args.temp_inside
              /\ T[Len(T)] = runs[k].args.temp_outside
              /\ \A j \in 1..(Len(T) - 1) : FGe(T[j], T[j + 1])
              /\ \A j \in 1..Len(T) :
                    /\ FLe(runs[k].args.temp_outside, T[j])
                    /\ FLe(T[j], runs[k].args.temp_inside)

\* The sum of thickness / lambda over the first n layers of run k.
RECURSIVE LayerSum(_, _)
LayerSum(k, n) ==
    IF n = 0 THEN Zero
    ELSE FAdd[LayerSum(k, n - 1),
              FDiv[runs[k].args.layers[n].thickness,
                   runs[k].materials[runs[k].args.layers[n].material.text]]]

\* C19: for a non-empty list of layers of known materials and positive
\* thicknesses calculate_u_value returns total_resistance = 0.13 + the sum
\* of thickness / lambda + 0.04 and u_value = 1 / total_resistance (to 5
\* digits), with one layer detail per layer, in the order of the list.
C19_UValueIsInverseOfSeriesSum ==
    \A k \in 1..Len(runs) :
        (/\ CallOf(k, "calculate_u_value")
         /\ Len(runs[k].args.layers) > 0
         /\ \A j \in 1..Len(runs[k].args.layers) :
               /\ Known(k, runs[k].args.layers[j].material)
               /\ FGt(runs[k].args.layers[j].thickness, Zero))
        => /\ runs[k].ret.err = "none"
           /\ Close(runs[k].ret.total_resistance_m2K_W,
                    FAdd[FAdd[R_si, LayerSum(k, Len(runs[k].args.layers))], R_se])
           /\ runs[k].ret.u_value_W_m2K # Infinity
           /\ Close(runs[k].ret.u_value_W_m2K,
                    FDiv[One, runs[k].ret.total_resistance_m2K_W])
           /\ Len(runs[k].ret.layers) = Len(runs[k].args.layers)
           /\ \A j \in 1..Len(runs[k].args.layers) :
                 /\ runs[k].ret.layers[j].material = runs[k].args.layers[j].material
                 /\ runs[k].ret.layers[j].thickness_m
                       = runs[k].args.layers[j].thickness

\* The arguments of run k pass every check of calculate_heat_flow.
ValidHeatFlow(k) ==
    /\ CallOf(k, "calculate_heat_flow")
    /\ Known(k, runs[k].args.material)
    /\ runs[k].args.material.text # ""
    /\ FGt(runs[k].args.area, Zero)
    /\ FGt(runs[k].args.thickness, Zero)
    /\ FGt(runs[k].materials[runs[k].args.material.text], Zero)

\* C20: for every valid input calculate_heat_flow returns heat_flow_W =
\* lambda * area * temp_diff / thickness and heat_flux_W_m2 = heat_flow_W /
\* area, and heat_flux_W_m2 * thermal_resistance_m2K_W gives temp_diff back
\* (to 5 digits).
C20_FourierRoundTrip ==
    \A k \in 1..Len(runs) :
        ValidHeatFlow(k)
        => /\ runs[k].ret.err = "none"
           /\ runs[k].ret.heat_flow_W
                 = FDiv[FMul[FMul[runs[k].materials[runs[k].args.material.text],
                                  runs[k].args.area], runs[k].args.temp_diff],
                        runs[k].args.thickness]
           /\ runs[k].ret.heat_flux_W_m2
                 = FDiv[runs[k].ret.heat_flow_W, runs[k].args.area]
           /\ Close(FMul[runs[k].ret.heat_flux_W_m2,
                         runs[k].ret.thermal_resistance_m2K_W],
                    runs[k].args.temp_diff)

\* Mineral wool, 3 m2 and 0.07 m thick, at 13 K: 22.29 W.
C20_Witness ==
    /\ Len(runs) > 0
    /\ ValidHeatFlow(Len(runs))
    /\ LastRun.ret.err = "none"
    /\ LastRun.args.material = Str("Mineralwolle")
    /\ LastRun.args.area = Fl(3)
    /\ LastRun.args.thickness = Dec(7, -2)
    /\ LastRun.args.temp_diff = Fl(13)
    /\ FGt(LastRun.ret.heat_flow_W, Fl(22))
    /\ FLt(LastRun.ret.heat_flow_W, Fl(23))

----------------------------------------------------------------------------
(* Properties of the bracket of calculate_max_current.                     *)

RECURSIVE Pow2(_)
Pow2(n) == IF n = 0 THEN 1 ELSE 2 * Pow2(n - 1)

\* A search is in progress or has ended.
Searching == search.phase \in {"probe", "final", "done"}

\* C23: during calculate_max_current the bracket satisfies
\* 0 <= i_min < i_max <= 10000 A, every probe is the midpoint of the bracket
\* it was taken from, every probe that does not end the search halves the
\* width of the bracket (after k such probes the width is 10000 A / 2^k), and
\* at most 20 probes are made before the final call of the solver.
C23_BracketHalves ==
    Searching =>
        /\ 0 <= search.i_min
        /\ search.i_min < search.i_max
        /\ search.i_max <= UpperCurrent
        /\ (search.i_max - search.i_min) * Pow2(search.k) = UpperCurrent
        /\ search.k <= MaxProbes
        /\ search.phase = "probe" =>
              /\ search.k < MaxProbes
              /\ 2 * search.i_test = search.i_min + search.i_max
              /\ cable.current = search.i_test
        /\ search.phase \in {"final", "done"} =>
              IF search.met
              THEN 2 * search.i_test = search.i_min + search.i_max
              ELSE /\ search.k = MaxProbes
                   /\ search.i_test \in {search.i_min, search.i_max}

\* A search that used all of its 20 probes has returned.
C23_Witness ==
    /\ Returned("calculate_max_current")
    /\ search.k = MaxProbes
    /\ (search.i_max - search.i_min) * Pow2(MaxProbes) = UpperCurrent

----------------------------------------------------------------------------
(* Properties of the details of calculate_conductor_temperature.           *)

\* I^2 * R(conductor_temp_C) for the details d of a call on the cable.
LossesAtReturned(d) ==
    calculate_conductor_losses([cable EXCEPT !.current = d.current_A],
                               d.conductor_temp_C).val

\* C25: in the details returned by calculate_conductor_temperature,
\* losses_W_per_m equals the conductor losses evaluated at the returned
\* conductor_temp_C, after a convergent exit and after the 10 iterations were
\* exhausted.
C25_LossesAtReturnedTemperature ==
    Returned("calculate_conductor_temperature")
    => LastRun.ret.details.losses_W_per_m = LossesAtReturned(LastRun.ret.details)

\* The part of C25 that the loop keeps: a call that left the loop by its
\* break reports the losses at the temperature it returns.
C25_ConvergedLossesAtReturned ==
    (Returned("calculate_conductor_temperature")
        /\ LastRun.ret.details.iterations < MaxIterations)
    => LastRun.ret.details.losses_W_per_m = LossesAtReturned(LastRun.ret.details)

----------------------------------------------------------------------------
(* Properties of analyze_grouping_factor.                                  *)

\* The four runs of one returned analysis: the single cable, the search,
\* the group, and the analysis itself.
AnalysisReturned == Returned("analyze_grouping_factor") /\ Len(runs) >= 4
SingleRun == runs[Len(runs) - 3]
SearchRun == runs[Len(runs) - 2]
MultiRun == runs[Len(runs) - 1]

\* C24: analyze_grouping_factor computes the temperatures of the single
\* cable and those of the group at the same value of cable_config.current.
C24_SameCurrentForSingleAndGroup ==
    AnalysisReturned => SingleRun.current = MultiRun.current

\* What the call does: the group is computed at the current the search of
\* calculate_max_current left in cable_config.
C24_GroupAtSearchCurrent ==
    AnalysisReturned =>
        /\ SingleRun.ret.op = MutualOp
        /\ SearchRun.ret.op = "calculate_max_current"
        /\ MultiRun.ret.op = MutualOp
        /\ MultiRun.current = SearchRun.ret.value
        /\ cable.current = SearchRun.ret.value

----------------------------------------------------------------------------
(* Properties of optimize_cable_spacing.                                   *)

\* A call on at least two cables has returned its dictionary.
Optimized ==
    /\ Returned("optimize_cable_spacing")
    /\ "optimal_spacing" \in DOMAIN LastRun.ret.value
    /\ LastRun.ret.value.num_cables >= 2

\* The entry e of all_results is that of the spacing returned: its maximum
\* temperature is within the limit, the margin returned is the limit minus
\* that temperature, and no entry has a larger margin.
IsOptimum(r, e) ==
    /\ e.spacing = r.value.optimal_spacing
    /\ FLe(e.max_conductor_temp, r.max_conductor_temp)
    /\ r.value.temp_margin = FSub[r.max_conductor_temp, e.max_conductor_temp]
    /\ \A j \in 1..Len(r.value.all_results) :
          FLe(r.value.all_results[j].temp_margin, r.value.temp_margin)

\* C27: on a group of at least two cables optimize_cable_spacing returns as
\* optimal_spacing one of the spacings tried at which the maximum conductor
\* temperature does not exceed max_conductor_temp, and as temp_margin
\* max_conductor_temp minus that temperature, the largest margin among the
\* spacings tried.
C27_OptimumIsFeasibleAndBest ==
    Optimized =>
        \E k \in 1..Len(LastRun.ret.value.all_results) :
            IsOptimum(LastRun.ret, LastRun.ret.value.all_results[k])

\* Some spacing tried keeps the group within the limit.
SomeFeasible(r) ==
    \E k \in 1..Len(r.value.all_results) :
        FLe(r.value.all_results[k].max_conductor_temp, r.max_conductor_temp)

\* What the loop does: with a feasible spacing among those tried the result
\* is the optimum of C27; without one it is min_spacing and -inf.
C27_OptimumOrFallback ==
    Optimized =>
        IF SomeFeasible(LastRun.ret)
        THEN \E k \in 1..Len(LastRun.ret.value.all_results) :
                IsOptimum(LastRun.ret, LastRun.ret.value.all_results[k])
        ELSE /\ LastRun.ret.value.optimal_spacing = optimizer.min_spacing
             /\ LastRun.ret.value.temp_margin = NegInfinity

----------------------------------------------------------------------------
(* Properties of calculate_cable_ampacity.                                 *)

\* A call with ambient_temp below max_conductor_temp has returned.
AmpacityReturned ==
    /\ Returned("calculate_cable_ampacity")
    /\ ampacity.phase = "done"
    /\ FLt(LastRun.args.ambient_temp, LastRun.args.max_conductor_temp)

\* The result reports the temperature of the current it returns, that
\* temperature is below the limit, the current is the lower end of the
\* bracket, and the bracket is at most 0.1 A wide.
BelowLimitInClosedBracket ==
    /\ LastRun.ret.power_loss_W_m =
          PowerAt(LastRun.ret.max_current_A, LastRun.args.conductor_resistance)
    /\ LastRun.ret.thermal_result.cable_power_W_m = LastRun.ret.power_loss_W_m
    /\ LastRun.ret.conductor_temp_C = LastRun.ret.thermal_result.cable_surface_temp_C
    /\ FLt(LastRun.ret.conductor_temp_C, LastRun.args.max_conductor_temp)
    /\ ampacity.I_min = LastRun.ret.max_current_A
    /\ 0 <= ampacity.I_min
    /\ ampacity.I_min < ampacity.I_max
    /\ ampacity.I_max <= UpperCurrent
    /\ ampacity.I_max - ampacity.I_min <= AmpUnit \div 10

----------------------------------------------------------------------------
(* Properties of the layer list of ARCADISSimpleThermalGUI.                *)

\* C21: in the layer list, after any sequence of add_layer_simple,
\* remove_last_layer and clear_layers with edits of the conductor diameter
\* in between, every layer's outer radius is its inner radius plus its
\* thickness, and every layer after the first has the outer radius of its
\* predecessor as inner radius.
C21_RadiiChain ==
    \A k \in 1..Len(gui.cable_layers) :
        /\ gui.cable_layers[k].outer_radius_mm =
              FAdd[gui.cable_layers[k].inner_radius_mm, gui.cable_layers[k].thickness_mm]
        /\ k > 1 => gui.cable_layers[k].inner_radius_mm =
                       gui.cable_layers[k - 1].outer_radius_mm

\* A removal has recalculated the radii of two layers or more from a
\* diameter of 30.5 mm, after layers had been added at 16 mm.
C21_Witness ==
    /\ ret.op = "remove_last_layer"
    /\ ret.err = "none"
    /\ Len(gui.cable_layers) >= 2
    /\ gui.cable_layers[1].inner_radius_mm = Dec(1525, -2)
    /\ gui.cable_layers[Len(gui.cable_layers)].name = "Sheath-Schicht"


----------------------------------------------------------------------------
(* Properties of MCPDeveloperDiary.                                        *)

\* The diary has handled a call of add_entry.
Added == diary.phase = "open" /\ diary.calls > 0

\* C29: the entries stored in the diary have distinct entry_id values after
\* any sequence of add_entry calls, calls within one second and calls after
\* a trimming to max_entries included.
C29_DistinctEntryIds ==
    Added =>
        \A j, k \in 1..Len(diary.entries) :
            j # k => diary.entries[j].entry_id # diary.entries[k].entry_id

\* While nothing has been trimmed away the ids are distinct: max_entries is
\* 0, or no more calls were made than max_entries.
C29_DistinctUntilTrimmed ==
    Added /\ (diary.max_entries = 0 \/ diary.calls <= diary.max_entries) =>
        \A j, k \in 1..Len(diary.entries) :
            j # k => diary.entries[j].entry_id # diary.entries[k].entry_id

\* The stored entries flagged as the current best standard.
Flagged == {k \in 1..Len(diary.entries) : diary.entries[k].is_current_best_standard}

\* No stored entry has a score strictly above that of entry k.
NoneHigher(k) ==
    \A j \in 1..Len(diary.entries) :
        diary.entries[j].proposed_standard_score # None =>
            /\ diary.entries[k].proposed_standard_score # None
            /\ ~FGt(diary.entries[j].proposed_standard_score,
                    diary.entries[k].proposed_standard_score)

\* at most one flag; a set pointer names a stored entry, every entry it
\* names is the flagged one, and none is scored above it.
PointerConsistent ==
    /\ Cardinality(Flagged) <= 1
    /\ diary.best_standard_entry_id # None =>
          /\ FindIndex(diary.entries, diary.best_standard_entry_id) # 0
          /\ \A k \in 1..Len(diary.entries) :
                diary.entries[k].entry_id = diary.best_standard_entry_id =>
                    k \in Flagged /\ NoneHigher(k)

\* C28: after every add_entry, trimming calls included, at most one stored
\* entry has is_current_best_standard set; if best_standard_entry_id is set
\* it names a stored entry, that entry is the flagged one, and no stored
\* entry has a strictly higher proposed_standard_score.
C28_SingleFlaggedBest == Added => PointerConsistent

\* While nothing has been trimmed away the pointer and the flags agree.
C28_ConsistentUntilTrimmed ==
    Added /\ (diary.max_entries = 0 \/ diary.calls <= diary.max_entries) =>
        PointerConsistent

\* With distinct ids among the stored entries the pointer and the flags
\* agree, trimmed or not.
C28_ConsistentWhileDistinct ==
    Added /\ (\A j, k \in 1..Len(diary.entries) :
                 j # k => diary.entries[j].entry_id # diary.entries[k].entry_id) =>
        PointerConsistent

\* The pointer after a step names an entry scored strictly above the best
\* score before the step, or there was no best score before it.
MovedToHigher ==
    /\ find_entry(diary'.entries, diary'.best_standard_entry_id) # None
    /\ find_entry(diary'.entries, diary'.best_standard_entry_id).proposed_standard_score # None
    /\ \/ current_best_score(diary) = None
       \/ FGt(find_entry(diary'.entries, diary'.best_standard_entry_id).proposed_standard_score,
              current_best_score(diary))

\* C22: across any sequence of add_entry calls the best-standard pointer
\* moves to another entry only when that entry's proposed_standard_score is
\* strictly higher than the score of the current best, or there is no
\* current best; a call with an equal or lower score, or with no score,
\* never replaces the current benchmark.
C22_ReplacedOnlyByHigherScore ==
    [][diary.phase = "open" /\ diary'.best_standard_entry_id # diary.best_standard_entry_id
          => MovedToHigher]_vars

\* A call that trims nothing away moves the pointer only to the entry it
\* adds, and only for a score strictly above the best before it.
C22_UntrimmedReplacedOnlyByHigher ==
    [][(/\ diary.phase = "open"
        /\ diary'.best_standard_entry_id # diary.best_standard_entry_id
        /\ Len(diary'.entries) = Len(diary.entries) + 1)
          => (/\ MovedToHigher
              /\ diary'.entries[Len(diary'.entries)].entry_id = diary'.best_standard_entry_id)]_vars

====
